---------------------------- MODULE Spec2Model ----------------------------
(***************************************************************************)
(* A model of the MCP gateway: the in-process storage backend, the server  *)
(* registry, the bootstrap loader, the tool router's auth resolution and   *)
(* the gateway core's call_remote_tool / tool_search handlers with         *)
(* deferred activation.                                                    *)
(*                                                                         *)
(* Strings are sequences of one-character strings, so that joining with    *)
(* "__", splitting at the first "__" and glob matching are computed as the *)
(* code computes them.  A fixed literal part of a storage key              *)
(* ("gateway:tool_meta:") is one symbol of the key: no name of the model   *)
(* contains it.  Python dicts are insertion-ordered: a dict is a sequence  *)
(* of [k, v] entries with pairwise distinct keys.  An optional value is a  *)
(* sequence of length 0 (None) or 1.                                       *)
(***************************************************************************)
EXTENDS Integers, Sequences, FiniteSets

VARIABLES
    storage,      \* InMemoryStorage: [data, expires, hashes]
    now,          \* the clock read by time.time() / datetime.utcnow()
    index,        \* ToolSearchService._tools: namespaced name -> indexed tool
    whoosh_available, \* ToolSearchService._whoosh_available: whether "import whoosh" worked
    active_tools, \* MCPOrchestratorServer._active_tools
    mcp,          \* the outer framework: the names registered, in call order
    summary,      \* the bootstrap loader's counters and its position
    handlers,     \* the tool_search handlers in flight
    sent,         \* the downstream requests made by the router, in call order
    gateway,      \* ToolRouter configuration: [auth_mode, transport]
    calls,        \* the router calls and discoveries in flight, with what each holds open
    writes,       \* history: per storage key, when it was last set and with which ttl
    tasks,        \* the registry calls in flight, each between two storage calls
    last,         \* the last operation that completed, and what it returned
    steps         \* the number of operations issued so far

vars == <<storage, now, index, active_tools, mcp, summary, handlers, sent,
          gateway, calls, writes, whoosh_available, tasks, last, steps>>

-----------------------------------------------------------------------------
(* Bounds of the model *)

MaxTools == 1
MaxSteps == 4
MaxEntries == 3
MaxDiscovered == 2

None == <<>>
Some(v) == <<v>>

\* ServerRegistration.name: str with min_length=1 and no other constraint.
\* Three names: a plain one, one that ends in "_", one that contains "__".
ServerNames == {<<"a">>, <<"a", "_">>, <<"a", "_", "_", "a">>}

\* a discovered tool's name: any string, the empty one included
ToolNames == {<<>>, <<"a">>, <<"_", "a">>}

-----------------------------------------------------------------------------
(* Python dict, insertion-ordered *)

EmptyDict == <<>>

DictIndex(d, k) ==
    IF \E i \in 1..Len(d) : d[i].k = k
    THEN CHOOSE i \in 1..Len(d) : d[i].k = k
    ELSE 0

DictHas(d, k) == DictIndex(d, k) # 0

DictGet(d, k) == IF DictHas(d, k) THEN Some(d[DictIndex(d, k)].v) ELSE None

DictSet(d, k, v) ==
    IF DictHas(d, k)
    THEN [d EXCEPT ![DictIndex(d, k)] = [k |-> k, v |-> v]]
    ELSE Append(d, [k |-> k, v |-> v])

DictDel(d, k) ==
    IF DictHas(d, k)
    THEN LET i == DictIndex(d, k)
         IN  SubSeq(d, 1, i - 1) \o SubSeq(d, i + 1, Len(d))
    ELSE d

DictKeys(d) == [i \in 1..Len(d) |-> d[i].k]

DictValues(d) == [i \in 1..Len(d) |-> d[i].v]

KeySet(d) == {d[i].k : i \in 1..Len(d)}

-----------------------------------------------------------------------------
(* Strings: the namespace separator, join and split *)

Sep == <<"_", "_">>

\* f"{server_name}__{tool_name}"
NamespacedName(server_name, tool_name) == server_name \o Sep \o tool_name

SepAt(x, i) == i + 1 <= Len(x) /\ x[i] = "_" /\ x[i + 1] = "_"

\* "__" in x
HasSep(x) == \E i \in 1..Len(x) : SepAt(x, i)

FirstSep(x) == CHOOSE i \in 1..Len(x) : SepAt(x, i) /\ \A j \in 1..(i - 1) : ~SepAt(x, j)

\* x.split("__", 1) for an x that contains "__"
SplitFirst(x) ==
    LET i == FirstSep(x)
    IN  <<SubSeq(x, 1, i - 1), SubSeq(x, i + 2, Len(x))>>

\* str.startswith
StartsWith(x, p) == Len(p) <= Len(x) /\ SubSeq(x, 1, Len(p)) = p

\* fnmatch.fnmatch(name, pat) on a case-sensitive platform: "*" matches any
\* run of symbols and "?" any one; every other symbol of the model's
\* alphabet stands for itself.
RECURSIVE Fnmatch(_, _)
Fnmatch(name, pat) ==
    IF pat = <<>> THEN name = <<>>
    ELSE IF Head(pat) = "*"
         THEN \/ Fnmatch(name, Tail(pat))
              \/ (name # <<>> /\ Fnmatch(Tail(name), pat))
         ELSE /\ name # <<>>
              /\ (Head(pat) = "?" \/ Head(pat) = Head(name))
              /\ Fnmatch(Tail(name), Tail(pat))

-----------------------------------------------------------------------------
(* Storage keys (registry.py, "Storage keys used") *)

ServersKey == <<"gateway:servers">>
AuthKey(name) == <<"gateway:server:">> \o name \o <<":auth">>
ToolsKey(name) == <<"gateway:server:">> \o name \o <<":tools">>
ToolMetaKey(namespaced_name) == <<"gateway:tool_meta:">> \o namespaced_name
ToolMetaPattern(server_name) == <<"gateway:tool_meta:">> \o server_name \o <<"_", "_", "*">>
AllToolMetaPattern == <<"gateway:tool_meta:", "*">>

-----------------------------------------------------------------------------
(* InMemoryStorage: each operation maps a storage to the storage after it *)

EmptyStorage == [data |-> EmptyDict, expires |-> EmptyDict, hashes |-> EmptyDict]

\* _is_expired: whether the key has an expiry that has passed
Expired(st, t, key) == DictHas(st.expires, key) /\ t > DictGet(st.expires, key)[1]

\* _is_expired's side effect: an expired key is dropped on access
Evict(st, t, key) ==
    IF Expired(st, t, key)
    THEN [st EXCEPT !.data = DictDel(@, key), !.expires = DictDel(@, key)]
    ELSE st

\* _cleanup_expired: drop every expired key
RECURSIVE EvictAll(_, _, _)
EvictAll(st, t, keys) ==
    IF keys = <<>> THEN st
    ELSE EvictAll(Evict(st, t, Head(keys)), t, Tail(keys))

CleanupExpired(st, t) == EvictAll(st, t, DictKeys(st.expires))

\* get: the value, None when absent or expired
StorageGet(st, t, key) == IF Expired(st, t, key) THEN None ELSE DictGet(st.data, key)

\* set(key, value, ttl): "if ttl:" takes None and 0 alike as no ttl
StorageSet(st, t, key, value, ttl) ==
    [st EXCEPT !.data = DictSet(@, key, value),
               !.expires = IF ttl # None /\ ttl[1] # 0 THEN DictSet(@, key, t + ttl[1])
                           ELSE DictDel(@, key)]

\* exists(key)
StorageExists(st, t, key) == ~Expired(st, t, key) /\ DictHas(st.data, key)

\* what delete(key) returns: whether _data held the key
StorageDeleteRet(st, key) == DictHas(st.data, key)

\* what hdel(key, field) returns
StorageHDelRet(st, key, field) ==
    DictHas(st.hashes, key) /\ DictHas(DictGet(st.hashes, key)[1], field)

\* delete: looks in _data only; a hash of that name stays in _hashes
StorageDelete(st, key) ==
    IF DictHas(st.data, key)
    THEN [st EXCEPT !.data = DictDel(@, key), !.expires = DictDel(@, key)]
    ELSE st

\* keys(pattern): sweeps the expired keys, then filters _data's keys
StorageKeys(st, t, pattern) ==
    LET swept == CleanupExpired(st, t)
        Match(k) == Fnmatch(k, pattern)
    IN  SelectSeq(DictKeys(swept.data), Match)

StorageHGet(st, key, field) ==
    IF DictHas(st.hashes, key) THEN DictGet(DictGet(st.hashes, key)[1], field) ELSE None

StorageHSet(st, key, field, value) ==
    LET h == IF DictHas(st.hashes, key) THEN DictGet(st.hashes, key)[1] ELSE EmptyDict
    IN  [st EXCEPT !.hashes = DictSet(@, key, DictSet(h, field, value))]

StorageHGetAll(st, key) ==
    IF DictHas(st.hashes, key) THEN DictGet(st.hashes, key)[1] ELSE EmptyDict

StorageHDel(st, key, field) ==
    IF DictHas(st.hashes, key) /\ DictHas(DictGet(st.hashes, key)[1], field)
    THEN [st EXCEPT !.hashes = DictSet(@, key, DictDel(DictGet(st.hashes, key)[1], field))]
    ELSE st

-----------------------------------------------------------------------------
(* Data model (models.py) *)

\* a headers dict {"Authorization": value}
Headers(value) == <<[k |-> "Authorization", v |-> value]>>

AuthConfig(type, headers) ==
    [type |-> type, headers |-> headers,
     header_name |-> "Authorization", header_prefix |-> "Bearer"]

AuthConfigs ==
    {AuthConfig("none", None),
     AuthConfig("static", Some(Headers("Bearer S"))),
     AuthConfig("forward", None)}

\* url and transport of a registration: an http endpoint, a stdio command
Endpoints ==
    {[url |-> <<"https://", "h">>, transport |-> "http"],
     [url |-> <<"cmd">>, transport |-> "stdio"]}

ServerRegistration(name, endpoint, auth) ==
    [name |-> name, url |-> endpoint.url, transport |-> endpoint.transport,
     command |-> None, args |-> None, env |-> None,
     connection_mode |-> "stateless", auth |-> auth, auto_discover |-> TRUE]

Registrations ==
    {ServerRegistration(n, e, a) : n \in ServerNames, e \in Endpoints, a \in AuthConfigs}

\* the ServerInfo that register constructs
ServerInfo(reg, t) ==
    [name |-> reg.name, url |-> reg.url, transport |-> reg.transport,
     command |-> reg.command, args |-> reg.args, env |-> reg.env,
     connection_mode |-> reg.connection_mode, auth_type |-> reg.auth.type,
     status |-> "unknown", registered_at |-> t, last_health_check |-> None,
     tool_count |-> 0, error_message |-> None]

EmptySchema == [properties |-> EmptyDict, required |-> <<>>]

\* a tool as discovery returns it: {name, description, input_schema}
Tool(name) == [name |-> name, description |-> <<"d">>, input_schema |-> EmptySchema]

Tools == {Tool(n) : n \in ToolNames}

\* an input_schema with one property; the downstream server picks the
\* property's name, which need not be a Python identifier
SchemaWith(prop_name) ==
    [properties |-> <<[k |-> prop_name, v |-> [description |-> <<>>, enum |-> None]]>>,
     required |-> <<>>]

\* tool "a" with a property named "-"
DashedTool == [Tool(<<"a">>) EXCEPT !.input_schema = SchemaWith(<<"-">>)]

ToolLists == UNION {[1..k -> Tools] : k \in 0..MaxTools}

Statuses == {"active", "inactive", "error", "unknown"}

-----------------------------------------------------------------------------
(* ServerRegistry: each operation maps a storage to [st, ret] *)

\* get(name)
RegistryGet(st, name) == StorageHGet(st, ServersKey, name)

\* get_auth_config(name)
GetAuthConfig(st, name) == StorageHGet(st, AuthKey(name), <<"config">>)

\* get_tools(name): "tools or []"
GetTools(st, t, name) ==
    LET r == StorageGet(st, t, ToolsKey(name))
    IN  IF r = None THEN <<>> ELSE r[1]

\* get_tool_metadata(namespaced_name)
GetToolMetadata(st, t, namespaced_name) == StorageGet(st, t, ToolMetaKey(namespaced_name))

\* get_all_tool_metadata(): the values of the gateway:tool_meta:* keys
GetAllToolMetadata(st, t) ==
    LET swept == CleanupExpired(st, t)
        keys == StorageKeys(st, t, AllToolMetaPattern)
    IN  [i \in 1..Len(keys) |-> StorageGet(swept, t, keys[i])[1]]

\* register without the existence check: a second registration overwrites
RegisterOverwrites(st, t, reg) ==
    LET s1 == StorageHSet(st, ServersKey, reg.name, ServerInfo(reg, t))
        s2 == IF reg.auth.type # "none"
              THEN StorageHSet(s1, AuthKey(reg.name), <<"config">>, reg.auth)
              ELSE s1
    IN  [st |-> s2, ret |-> "ok"]

\* register(registration)
Register(st, t, reg) ==
    IF RegistryGet(st, reg.name) # None
    THEN [st |-> st, ret |-> "Conflict"]
    ELSE LET s1 == StorageHSet(st, ServersKey, reg.name, ServerInfo(reg, t))
             s2 == IF reg.auth.type # "none"
                   THEN StorageHSet(s1, AuthKey(reg.name), <<"config">>, reg.auth)
                   ELSE s1
         IN  [st |-> s2, ret |-> "ok"]

RECURSIVE DeleteAll(_, _)
DeleteAll(st, keys) ==
    IF keys = <<>> THEN st
    ELSE DeleteAll(StorageDelete(st, Head(keys)), Tail(keys))

\* remove_tool_metadata(server_name)
RemoveToolMetadata(st, t, server_name) ==
    DeleteAll(CleanupExpired(st, t), StorageKeys(st, t, ToolMetaPattern(server_name)))

\* an unregister that sweeps the auth and tools keys before it looks
\* for the record
UnregisterSweepsFirst(st, t, name) ==
    LET s2 == StorageDelete(st, AuthKey(name))
        s3 == StorageDelete(s2, ToolsKey(name))
    IN  IF RegistryGet(st, name) = None
        THEN [st |-> s3, ret |-> "false"]
        ELSE [st |-> RemoveToolMetadata(StorageHDel(s3, ServersKey, name), t, name),
              ret |-> "true"]

\* unregister(name)
Unregister(st, t, name) ==
    IF RegistryGet(st, name) = None
    THEN [st |-> st, ret |-> "false"]
    ELSE LET s1 == StorageHDel(st, ServersKey, name)
             s2 == StorageDelete(s1, AuthKey(name))
             s3 == StorageDelete(s2, ToolsKey(name))
         IN  [st |-> RemoveToolMetadata(s3, t, name), ret |-> "true"]

\* an update_status that builds the record anew and so loses tool_count
UpdateStatusResetsCount(st, t, name, status, error_message) ==
    IF RegistryGet(st, name) = None
    THEN [st |-> st, ret |-> "false"]
    ELSE LET server == RegistryGet(st, name)[1]
             updated == [server EXCEPT
                           !.status = status,
                           !.last_health_check = Some(t),
                           !.tool_count = 0,
                           !.error_message = IF error_message # None
                                             THEN error_message ELSE @]
         IN  [st |-> StorageHSet(st, ServersKey, name, updated), ret |-> "true"]

\* update_status(name, status, error_message)
UpdateStatus(st, t, name, status, error_message) ==
    IF RegistryGet(st, name) = None
    THEN [st |-> st, ret |-> "false"]
    ELSE LET server == RegistryGet(st, name)[1]
             updated == [server EXCEPT
                           !.status = status,
                           !.last_health_check = Some(t),
                           !.error_message = IF error_message # None
                                             THEN error_message ELSE @]
         IN  [st |-> StorageHSet(st, ServersKey, name, updated), ret |-> "true"]

\* update_tool_count(name, count)
UpdateToolCount(st, name, count) ==
    IF RegistryGet(st, name) = None
    THEN [st |-> st, ret |-> "false"]
    ELSE LET server == RegistryGet(st, name)[1]
         IN  [st |-> StorageHSet(st, ServersKey, name, [server EXCEPT !.tool_count = count]),
              ret |-> "true"]

\* the metadata record store_tool_metadata builds
ToolMetadata(server_name, tool_name, tool_data) ==
    [namespaced_name |-> NamespacedName(server_name, tool_name),
     server_name |-> server_name, tool_name |-> tool_name,
     description |-> tool_data.description, input_schema |-> tool_data.input_schema]

\* store_tool_metadata(server_name, tool_name, tool_data)
StoreToolMetadata(st, t, server_name, tool_name, tool_data) ==
    StorageSet(st, t, ToolMetaKey(NamespacedName(server_name, tool_name)),
               ToolMetadata(server_name, tool_name, tool_data), None)

RECURSIVE StoreEachAlsoUnnamed(_, _, _, _)
\* a loop that writes metadata for the tools without a name too
StoreEachAlsoUnnamed(st, t, name, tools) ==
    IF tools = <<>> THEN st
    ELSE StoreEachAlsoUnnamed(StoreToolMetadata(st, t, name, Head(tools).name, Head(tools)),
                              t, name, Tail(tools))

RECURSIVE StoreEach(_, _, _, _)
StoreEach(st, t, name, tools) ==
    IF tools = <<>> THEN st
    ELSE LET tool == Head(tools)
             s1 == IF tool.name # <<>>
                   THEN StoreToolMetadata(st, t, name, tool.name, tool)
                   ELSE st
         IN  StoreEach(s1, t, name, Tail(tools))

\* store_tools(name, tools): the bundle, then the metadata of each named tool
StoreTools(st, t, name, tools) ==
    StoreEach(StorageSet(st, t, ToolsKey(name), tools, None), t, name, tools)

-----------------------------------------------------------------------------
(* ToolSearchService: the index (search.py) *)

RECURSIVE JoinSpace(_)
\* " ".join(parts)
JoinSpace(parts) ==
    IF parts = <<>> THEN <<>>
    ELSE IF Len(parts) = 1 THEN Head(parts)
    ELSE Head(parts) \o <<" ">> \o JoinSpace(Tail(parts))

RECURSIVE PropertyParts(_)
\* the parts one pass over input_schema.properties appends: the property's
\* name, its description and its enum values when it has them
PropertyParts(properties) ==
    IF properties = <<>> THEN <<>>
    ELSE LET p == Head(properties)
         IN  <<p.k>> \o p.v.description \o (IF p.v.enum = None THEN <<>> ELSE p.v.enum[1])
                 \o PropertyParts(Tail(properties))

\* _build_searchable_text(tool_data, apply_weighting), tool_name being
\* tool_data.get("tool_name") or tool_data.get("name", "")
BuildSearchableText(tool_name, tool_data, apply_weighting) ==
    LET parts ==
            (IF apply_weighting /\ tool_name # <<>> THEN <<tool_name>> ELSE <<>>)
            \o <<tool_name>>
            \o (IF apply_weighting /\ tool_data.description # <<>>
                THEN <<tool_data.description>> ELSE <<>>)
            \o <<tool_data.description>>
            \o PropertyParts(tool_data.input_schema.properties)
            \o tool_data.input_schema.required
        NonEmpty(x) == x # <<>>
    IN  JoinSpace(SelectSeq(parts, NonEmpty))

\* index_tool(server_name, tool)
IndexTool(idx, server_name, tool) ==
    LET namespaced == NamespacedName(server_name, tool.name)
    IN  DictSet(idx, namespaced,
                [server_name |-> server_name, tool_name |-> tool.name,
                 namespaced_name |-> namespaced, description |-> tool.description,
                 input_schema |-> tool.input_schema,
                 searchable_text |-> BuildSearchableText(tool.name, tool, TRUE),
                 defer_loading |-> TRUE])

RECURSIVE IndexTools(_, _, _)
\* index_tools(server_name, tools)
IndexTools(idx, server_name, tools) ==
    IF tools = <<>> THEN idx
    ELSE IndexTools(IndexTool(idx, server_name, Head(tools)), server_name, Tail(tools))

\* index_tool_metadata(tool_meta): an entry without namespaced_name is
\* skipped; the text is built by _build_search_document, without weighting
IndexToolMetadata(idx, tool_meta) ==
    IF tool_meta.namespaced_name = <<>> THEN idx
    ELSE DictSet(idx, tool_meta.namespaced_name,
                 [server_name |-> tool_meta.server_name, tool_name |-> tool_meta.tool_name,
                  namespaced_name |-> tool_meta.namespaced_name,
                  description |-> tool_meta.description,
                  input_schema |-> tool_meta.input_schema,
                  searchable_text |-> BuildSearchableText(tool_meta.tool_name, tool_meta, FALSE),
                  defer_loading |-> TRUE])

RECURSIVE IndexAllMetadata(_, _)
\* index_all_metadata(metadata_list)
IndexAllMetadata(idx, metadata_list) ==
    IF metadata_list = <<>> THEN idx
    ELSE IndexAllMetadata(IndexToolMetadata(idx, Head(metadata_list)), Tail(metadata_list))

\* remove_server_tools(server_name): drops the entries whose namespaced
\* name starts with "{server_name}__"
RemoveServerTools(idx, server_name) ==
    LET Kept(e) == ~StartsWith(e.k, server_name \o Sep)
    IN  SelectSeq(idx, Kept)

\* the ToolReference objects a search returns for the entries it found
ToolReferences(hits) ==
    [i \in 1..Len(hits) |->
        [server_name |-> hits[i].v.server_name, tool_name |-> hits[i].v.tool_name,
         namespaced_name |-> hits[i].v.namespaced_name,
         description |-> hits[i].v.description,
         input_schema |-> hits[i].v.input_schema,
         defer_loading |-> hits[i].v.defer_loading]]

-----------------------------------------------------------------------------
(* The gateway core's world: storage, index, active tools, outer framework *)

World(st, idx, act, fw) == [st |-> st, index |-> idx, active |-> act, mcp |-> fw]

\* str.isidentifier() over the model's symbols: letters and "_" only
IsIdentifier(x) == x # <<>> /\ \A i \in 1..Len(x) : x[i] \in {"a", "d", "_"}

\* _create_dynamic_tool raises ValueError: inspect.Parameter refuses a
\* property name that is not an identifier
CreateRaises(tool_data) ==
    \E i \in 1..Len(tool_data.input_schema.properties) :
        ~IsIdentifier(tool_data.input_schema.properties[i].k)

\* _create_dynamic_tool(server_name, tool_name, tool_data) when it does not
\* raise: registers a handler under the namespaced name with the outer
\* framework
CreateDynamicTool(fw, server_name, tool_name) ==
    Append(fw, NamespacedName(server_name, tool_name))

RECURSIVE ExposeTools(_, _, _)
\* the expose_tools loop of _register_server: every named tool is created;
\* a tool whose creation raises is logged and left out
ExposeTools(fw, server_name, tools) ==
    IF tools = <<>> THEN fw
    ELSE LET tool == Head(tools)
             f1 == IF tool.name # <<>> /\ ~CreateRaises(tool)
                   THEN CreateDynamicTool(fw, server_name, tool.name)
                   ELSE fw
         IN  ExposeTools(f1, server_name, Tail(tools))

-----------------------------------------------------------------------------
(* ServerConfigLoader (config_loader.py) *)

\* a ServerConfigEntry
ConfigEntry(name, endpoint, auth, enabled, auto_discover, expose_tools) ==
    [name |-> name, url |-> endpoint.url, transport |-> endpoint.transport,
     command |-> None, args |-> None, env |-> None, connection_mode |-> "stateless",
     auth_type |-> auth.type, auth_headers |-> auth.headers,
     auth_header_name |-> "Authorization",
     auto_discover |-> auto_discover, enabled |-> enabled, expose_tools |-> expose_tools]

\* the registration _register_server builds from an entry
EntryRegistration(entry) ==
    [name |-> entry.name, url |-> entry.url, transport |-> entry.transport,
     command |-> entry.command, args |-> entry.args, env |-> entry.env,
     connection_mode |-> entry.connection_mode,
     auth |-> [type |-> entry.auth_type, headers |-> entry.auth_headers,
               header_name |-> entry.auth_header_name, header_prefix |-> "Bearer"],
     auto_discover |-> entry.auto_discover]

\* What discovery answers: the tool list, or an exception (a timeout, a
\* transport error).  The downstream server decides.
DiscoveryFailed == [ok |-> FALSE, tools |-> <<>>]
Discovered(tools) == [ok |-> TRUE, tools |-> tools]

\* the discovery write of _register_server: store_tools, index_tools,
\* update_tool_count(len(tools)), then the expose_tools loop
DiscoveryWrite(w, t, entry, tools) ==
    LET s1 == StoreTools(w.st, t, entry.name, tools)
        i1 == IndexTools(w.index, entry.name, tools)
        s2 == UpdateToolCount(s1, entry.name, Len(tools)).st
        f1 == IF entry.expose_tools THEN ExposeTools(w.mcp, entry.name, tools) ELSE w.mcp
    IN  World(s2, i1, w.active, f1)

\* _register_server(entry, ...): [w, success, tool_count]; wrote tells
\* whether the discovery write ran
RegisterServer(w, t, entry, outcome) ==
    LET r == Register(w.st, t, EntryRegistration(entry))
        w1 == [w EXCEPT !.st = r.st]
    IN  IF r.ret = "Conflict"
        THEN [w |-> w, success |-> FALSE, tool_count |-> 0, wrote |-> FALSE]
        ELSE IF ~entry.auto_discover \/ ~outcome.ok \/ outcome.tools = <<>>
        THEN [w |-> w1, success |-> TRUE, tool_count |-> 0, wrote |-> FALSE]
        ELSE [w |-> DiscoveryWrite(w1, t, entry, outcome.tools), success |-> TRUE,
              tool_count |-> Len(outcome.tools), wrote |-> TRUE]

\* one pass of the loop of load_and_register over the counters
\* a loop that passes over a disabled entry without counting it
CountEntryForgetsSkipped(sm, entry, result) ==
    IF ~entry.enabled
    THEN sm
    ELSE IF result.success
    THEN [sm EXCEPT !.servers_loaded = @ + 1,
                    !.total_tools = @ + result.tool_count,
                    !.servers = Append(@, [name |-> entry.name, url |-> entry.url,
                                           transport |-> entry.transport,
                                           tool_count |-> result.tool_count])]
    ELSE [sm EXCEPT !.servers_failed = @ + 1]

CountEntry(sm, entry, result) ==
    IF ~entry.enabled
    THEN [sm EXCEPT !.servers_skipped = @ + 1]
    ELSE IF result.success
    THEN [sm EXCEPT !.servers_loaded = @ + 1,
                    !.total_tools = @ + result.tool_count,
                    !.servers = Append(@, [name |-> entry.name, url |-> entry.url,
                                           transport |-> entry.transport,
                                           tool_count |-> result.tool_count])]
    ELSE [sm EXCEPT !.servers_failed = @ + 1]

-----------------------------------------------------------------------------
(* ToolSearchService: regex search (search.py) *)

\* x occurs in text as a contiguous run
Contains(text, x) ==
    \E i \in 1..(Len(text) - Len(x) + 1) : SubSeq(text, i, i + Len(x) - 1) = x

\* re.compile(query) raises re.error: of the model's symbols only "(" is a
\* regex metacharacter, and alone it is an unterminated group
InvalidPattern(query) == \E i \in 1..Len(query) : query[i] = "("

\* str.lower() over the model's symbols
Lower(c) == IF c = "A" THEN "a" ELSE IF c = "D" THEN "d" ELSE c

LowerText(text) == [i \in 1..Len(text) |-> Lower(text[i])]

RECURSIVE SplitAt(_, _)
\* the runs of x between the occurrences of the symbol sep
SplitAt(x, sep) ==
    IF \A i \in 1..Len(x) : x[i] # sep THEN <<x>>
    ELSE LET i == CHOOSE j \in 1..Len(x) : x[j] = sep /\ \A m \in 1..(j - 1) : x[m] # sep
         IN  <<SubSeq(x, 1, i - 1)>> \o SplitAt(SubSeq(x, i + 1, Len(x)), sep)

RECURSIVE FoundInOrder(_, _)
\* the literal pieces occur in text one after the other, without overlap
FoundInOrder(text, pieces) ==
    IF pieces = <<>> THEN TRUE
    ELSE LET p == Head(pieces)
             At(i) == SubSeq(text, i, i + Len(p) - 1) = p
             starts == {i \in 1..(Len(text) - Len(p) + 1) : At(i)}
         IN  IF starts = {} THEN FALSE
             ELSE LET i == CHOOSE j \in starts : \A m \in starts : j <= m
                  IN  FoundInOrder(SubSeq(text, i + Len(p), Len(text)), Tail(pieces))

\* pattern.search(text) under re.IGNORECASE, for a pattern made of literal
\* symbols and ".*" (one symbol of the model)
RegexFound(text, pattern) ==
    FoundInOrder(LowerText(text), SplitAt(LowerText(pattern), ".*"))

\* a search that keeps the last limit matches
SearchRegexKeepsLast(idx, query, limit) ==
    LET Matches(e) == RegexFound(e.v.searchable_text, query)
        hits == SelectSeq(idx, Matches)
    IN  SubSeq(hits, IF Len(hits) < limit THEN 1 ELSE Len(hits) - limit + 1, Len(hits))

\* search_regex(query, limit) for a pattern that compiles: the entries
\* whose searchable_text the pattern is found in, in index order, cut to
\* limit
SearchRegex(idx, query, limit) ==
    LET Matches(e) == RegexFound(e.v.searchable_text, query)
        hits == SelectSeq(idx, Matches)
    IN  SubSeq(hits, 1, IF Len(hits) < limit THEN Len(hits) ELSE limit)

-----------------------------------------------------------------------------
(* ToolSearchService: BM25-style search (search.py) *)

\* the symbols texts and queries are made of
Symbols == {"a", "d", "n", "_", "A", "D", " ", "-", "(", ".*"}

\* [a-zA-Z_] among them
WordChars == {"a", "d", "n", "_", "A", "D"}

\* the members of STOP_WORDS that can be written with the model's letters
StopWords == {<<"a">>, <<"a", "n">>, <<"a", "n", "d">>}

RECURSIVE Tokens(_, _)
\* the maximal runs of symbols of keep in text, left to right
Tokens(text, keep) ==
    IF text = <<>> THEN <<>>
    ELSE IF Head(text) \notin keep THEN Tokens(Tail(text), keep)
    ELSE LET n == CHOOSE m \in 1..Len(text) :
                      /\ \A i \in 1..m : text[i] \in keep
                      /\ (m = Len(text) \/ text[m + 1] \notin keep)
         IN  <<SubSeq(text, 1, n)>> \o Tokens(SubSeq(text, n + 1, Len(text)), keep)

\* _extract_keywords(text): the words of the lowered text, less the stop
\* words and the words of one or two letters
ExtractKeywords(text) ==
    LET Meaningful(w) == w \notin StopWords /\ Len(w) > 2
    IN  SelectSeq(Tokens(LowerText(text), WordChars), Meaningful)

RECURSIVE Count(_, _)
\* str.count(sub): occurrences that do not overlap, from the left
Count(text, sub) ==
    IF sub = <<>> THEN Len(text) + 1
    ELSE LET starts == {i \in 1..(Len(text) - Len(sub) + 1) :
                            SubSeq(text, i, i + Len(sub) - 1) = sub}
         IN  IF starts = {} THEN 0
             ELSE LET i == CHOOSE j \in starts : \A m \in starts : j <= m
                  IN  1 + Count(SubSeq(text, i + Len(sub), Len(text)), sub)

RECURSIVE Strip(_, _)
\* str.strip(chars)
Strip(word, chars) ==
    IF word = <<>> THEN word
    ELSE IF Head(word) \in chars THEN Strip(Tail(word), chars)
    ELSE IF word[Len(word)] \in chars THEN Strip(SubSeq(word, 1, Len(word) - 1), chars)
    ELSE word

RECURSIVE Sum(_)
Sum(xs) == IF xs = <<>> THEN 0 ELSE Head(xs) + Sum(Tail(xs))

\* the keys of semantic_boosts (search, query, documentation, docs,
\* library, mcp) need letters the model does not have, so no keyword of
\* the model gets that boost
SemanticBoost(keyword, tool_name, description) == 0

\* what one keyword adds to the score before the final factor, in halves
\* of a point
KeywordScore(keyword, tool_name, description, searchable_text) ==
    LET name_words == Tokens(tool_name, Symbols \ {"_", "-", " "})
        desc_words == Tokens(description, Symbols \ {" "})
        Partial(word) == Len(word) > 3 /\ Contains(word, keyword) /\ keyword # word
        in_name == [i \in 1..Len(name_words) |-> IF Partial(name_words[i]) THEN 4 ELSE 0]
        in_desc == [i \in 1..Len(desc_words) |->
                       IF Partial(Strip(desc_words[i], {".", ",", ";", ":"})) THEN 2 ELSE 0]
    IN  (IF Contains(tool_name, keyword)
         THEN 16 + (IF StartsWith(tool_name, keyword) THEN 8 ELSE 0) ELSE 0)
        + (IF Contains(description, keyword)
           THEN 30 + (IF Contains(SubSeq(description, 1,
                                         IF Len(description) < 100 THEN Len(description)
                                         ELSE 100), keyword)
                      THEN 10 ELSE 0)
           ELSE 0)
        + Count(searchable_text, keyword)
        + SemanticBoost(keyword, tool_name, description)
        + Sum(in_name) + Sum(in_desc)

\* _calculate_bm25_score(query, tool_data) times 20: the per-keyword sum
\* in halves of a point, then the factor 2.0, 1.8, 1.4 or 1 in tenths.
\* The code multiplies floats; two products the integers here make equal
\* may differ there in the last bit.
Bm25Score(query, tool_data) ==
    LET kws == ExtractKeywords(query)
        tool_name == LowerText(tool_data.tool_name)
        description == LowerText(tool_data.description)
        searchable_text == LowerText(tool_data.searchable_text)
        base == Sum([i \in 1..Len(kws) |->
                        KeywordScore(kws[i], tool_name, description, searchable_text)])
        name_matches == Sum([i \in 1..Len(kws) |->
                                IF Contains(tool_name, kws[i]) THEN 1 ELSE 0])
        desc_matches == Sum([i \in 1..Len(kws) |->
                                IF Contains(description, kws[i]) THEN 1 ELSE 0])
    IN  IF kws = <<>> THEN 0
        ELSE IF name_matches > 0 /\ desc_matches > 0 THEN base * 20
        ELSE IF desc_matches >= Len(kws) THEN base * 18
        ELSE IF 10 * (name_matches + desc_matches) >= 7 * Len(kws) THEN base * 14
        ELSE base * 10

RECURSIVE JoinWith(_, _)
\* sep.join(parts)
JoinWith(parts, sep) ==
    IF parts = <<>> THEN <<>>
    ELSE IF Len(parts) = 1 THEN Head(parts)
    ELSE Head(parts) \o <<sep>> \o JoinWith(Tail(parts), sep)

\* an insertion that puts a tool ahead of the tools scoring the same
InsertAheadOfEquals(sorted, item) ==
    LET ahead == {i \in 1..Len(sorted) : sorted[i].score > item.score}
        n == Cardinality(ahead)
    IN  SubSeq(sorted, 1, n) \o <<item>> \o SubSeq(sorted, n + 1, Len(sorted))

\* list.sort(key=score, reverse=True) one item at a time: the sort is
\* stable, so an item goes behind the items scoring the same or more
InsertByScore(sorted, item) ==
    LET ahead == {i \in 1..Len(sorted) : sorted[i].score >= item.score}
        n == Cardinality(ahead)
    IN  SubSeq(sorted, 1, n) \o <<item>> \o SubSeq(sorted, n + 1, Len(sorted))

RECURSIVE SortByScore(_, _)
SortByScore(sorted, items) ==
    IF items = <<>> THEN sorted
    ELSE SortByScore(InsertByScore(sorted, Head(items)), Tail(items))

\* search_bm25(query, limit): without the library, a regex search for the
\* keywords joined by ".*"; with it, the tools scoring above 0, best first
SearchBm25(idx, whoosh, query, limit) ==
    LET kws == ExtractKeywords(query)
        scored == [i \in 1..Len(idx) |-> [e |-> idx[i], score |-> Bm25Score(query, idx[i].v)]]
        Positive(x) == x.score > 0
        ranked == SortByScore(<<>>, SelectSeq(scored, Positive))
        top == SubSeq(ranked, 1, IF Len(ranked) < limit THEN Len(ranked) ELSE limit)
    IN  IF ~whoosh
        THEN IF kws # <<>> THEN SearchRegex(idx, JoinWith(kws, ".*"), limit) ELSE <<>>
        ELSE [i \in 1..Len(top) |-> top[i].e]

-----------------------------------------------------------------------------
(* ToolRouter (router.py) *)

\* an auto mode that also forwards when the gateway runs over sse
ShouldForwardAuthOverSse(gw, server_transport) ==
    IF gw.auth_mode = "static" THEN FALSE
    ELSE IF gw.auth_mode = "forward" THEN TRUE
    ELSE gw.transport \in {"http", "streamable-http", "sse"}

\* _should_forward_auth(server_transport)
ShouldForwardAuth(gw, server_transport) ==
    IF gw.auth_mode = "static" THEN FALSE
    ELSE IF gw.auth_mode = "forward" THEN TRUE
    ELSE gw.transport \in {"http", "streamable-http"}

\* _get_effective_auth_headers(server_auth_headers, client_auth_header,
\* server_transport); a None or empty value is falsy
GetEffectiveAuthHeaders(gw, server_auth_headers, client_auth_header, server_transport) ==
    IF ShouldForwardAuth(gw, server_transport)
          /\ client_auth_header # None /\ client_auth_header[1] # ""
    THEN Some(Headers(client_auth_header[1]))
    ELSE IF server_auth_headers # None /\ server_auth_headers[1] # EmptyDict
    THEN server_auth_headers
    ELSE None

\* what reaches the downstream server: where the call goes, the tool and
\* the HTTP headers (a stdio child process gets no headers)
Request(server_name, target, transport, tool_name, headers) ==
    [server |-> server_name, target |-> target, transport |-> transport,
     tool |-> tool_name, headers |-> headers]

\* a call_tool that opens the HTTP path whatever the URL looks like
RouterCallToolAnyUrl(gw, info, tool_name, auth_headers) ==
    LET effective == GetEffectiveAuthHeaders(gw, auth_headers, None, info.transport)
        headers == IF effective = None THEN EmptyDict ELSE effective[1]
    IN  IF info.transport \in {"http", "sse"}
        THEN [ret |-> "ok",
              request |-> Some(Request(info.name, info.url, info.transport, tool_name, headers))]
        ELSE IF info.transport = "stdio"
        THEN [ret |-> "ok",
              request |-> Some(Request(info.name,
                                       IF info.command # None THEN info.command[1] ELSE info.url,
                                       "stdio", tool_name, EmptyDict))]
        ELSE [ret |-> "ToolCallError: Unsupported transport", request |-> None]

\* call_tool(server_name, server_url, tool_name, arguments, transport,
\* command, args, env, auth_headers): [ret, request]; it hands
\* _get_effective_auth_headers no client header
RouterCallTool(gw, info, tool_name, auth_headers) ==
    LET effective == GetEffectiveAuthHeaders(gw, auth_headers, None, info.transport)
        headers == IF effective = None THEN EmptyDict ELSE effective[1]
    IN  IF info.transport = "http"
        THEN IF ~(StartsWith(info.url, <<"http://">>) \/ StartsWith(info.url, <<"https://">>))
             THEN [ret |-> "ToolCallError: Invalid HTTP URL", request |-> None]
             ELSE [ret |-> "ok",
                   request |-> Some(Request(info.name, info.url, "http", tool_name, headers))]
        ELSE IF info.transport = "stdio"
        THEN [ret |-> "ok",
              request |-> Some(Request(info.name,
                                       IF info.command # None THEN info.command[1] ELSE info.url,
                                       "stdio", tool_name, EmptyDict))]
        ELSE IF info.transport = "sse"
        THEN [ret |-> "ok",
              request |-> Some(Request(info.name, info.url, "sse", tool_name, headers))]
        ELSE [ret |-> "ToolCallError: Unsupported transport", request |-> None]

-----------------------------------------------------------------------------
(* Sessions: what a router call or a discovery opens, and how it ends
   (router.py and mcp_server.py) *)

\* the context managers _call_tool_http / _call_tool_stdio /
\* _call_tool_sse enter, outermost first
CallPlan(transport) ==
    IF transport = "http" THEN <<"http_client", "stream", "session">>
    ELSE IF transport = "stdio" THEN <<"subprocess", "session">>
    ELSE IF transport = "sse" THEN <<"stream", "session">>
    ELSE <<>>

\* _discover_tools: the transports it opens a session for; for any other
\* it logs a warning and returns []
DiscoverSupported(transport) == transport \in {"http", "stdio"}

\* the context managers _discover_tools_http / _discover_tools_stdio
\* enter, outermost first
DiscoverPlan(transport) ==
    IF transport = "http" THEN <<"http_client", "stream", "session">>
    ELSE IF transport = "stdio" THEN <<"subprocess", "session">>
    ELSE <<>>

PlanOf(call) ==
    IF call.kind = "discover" THEN DiscoverPlan(call.transport) ELSE CallPlan(call.transport)

InFlight(call) == call.pc \in {"opening", "initialize", "request"}

\* a deadline that leaves the stdio path out
DeadlineSkipsStdio(call) ==
    /\ InFlight(call)
    /\ call.transport # "stdio"
    /\ (call.transport = "http" => Len(call.held) >= 1)

\* the call is inside its asyncio.timeout block: on the http paths the
\* block is entered after httpx.AsyncClient, on the others first of all
DeadlineArmed(call) ==
    /\ InFlight(call)
    /\ (call.transport = "http" => Len(call.held) >= 1)

\* what a passed deadline surfaces as: call_tool lets asyncio's
\* TimeoutError through, discovery turns it into ConnectionError
TimeoutReason(kind) == IF kind = "discover" THEN "ConnectionError" ELSE "TimeoutError"

\* leaving on cancellation without running the exits
ExitDropsOnCancel(call, reason) ==
    [call EXCEPT !.pc = IF call.held = <<>> \/ reason = "CancelledError"
                        THEN "idle" ELSE "unwinding",
                 !.ret = reason]

\* the body of the innermost "async with" is left, by return or by an
\* exception: every context manager entered so far still runs its exit
Exit(call, reason) ==
    [call EXCEPT !.pc = IF call.held = <<>> THEN "idle" ELSE "unwinding",
                 !.ret = reason]

\* the exit of the innermost context manager still held
ReleaseInnermost(call) ==
    LET held == SubSeq(call.held, 1, Len(call.held) - 1)
    IN  [call EXCEPT !.held = held,
                     !.pc = IF held = <<>> THEN "idle" ELSE "unwinding"]

\* _extract_tools_from_response(response, server_name)
ExtractTools(response) ==
    [i \in 1..Len(response) |->
        [name |-> response[i].name,
         description |-> IF response[i].description = None THEN <<>>
                         ELSE response[i].description[1],
         input_schema |-> response[i].inputSchema]]

-----------------------------------------------------------------------------
(* The gateway's own tools (mcp_server.py) *)

\* a call_remote_tool that lets the registered headers win over the
\* caller's
CallRemoteToolPrefersRegistered(st, gw, tool_name, auth_header) ==
    IF ~HasSep(tool_name)
    THEN [ret |-> "ValueError: Invalid tool name format", request |-> None, handed |-> None]
    ELSE LET server_name == SplitFirst(tool_name)[1]
             actual_tool_name == SplitFirst(tool_name)[2]
             server_info == RegistryGet(st, server_name)
             auth_config == GetAuthConfig(st, server_name)
             auth_headers ==
                 IF auth_config # None /\ auth_config[1].headers # None
                       /\ auth_config[1].headers[1] # EmptyDict
                 THEN auth_config[1].headers
                 ELSE IF auth_header # None /\ auth_header[1] # ""
                 THEN Some(Headers(auth_header[1]))
                 ELSE None
             r == RouterCallTool(gw, server_info[1], actual_tool_name, auth_headers)
         IN  IF server_info = None
             THEN [ret |-> "ValueError: Server not found", request |-> None, handed |-> None]
             ELSE [ret |-> r.ret, request |-> r.request, handed |-> Some(auth_headers)]

\* a call_remote_tool that treats an unknown server name as a command
\* to run
CallRemoteToolRunsUnknown(st, gw, tool_name, auth_header) ==
    IF ~HasSep(tool_name)
    THEN [ret |-> "ValueError: Invalid tool name format", request |-> None, handed |-> None]
    ELSE LET server_name == SplitFirst(tool_name)[1]
             actual_tool_name == SplitFirst(tool_name)[2]
             server_info == RegistryGet(st, server_name)
             auth_config == GetAuthConfig(st, server_name)
             auth_headers ==
                 IF auth_header # None /\ auth_header[1] # ""
                 THEN Some(Headers(auth_header[1]))
                 ELSE IF auth_config # None /\ auth_config[1].headers # None
                            /\ auth_config[1].headers[1] # EmptyDict
                 THEN auth_config[1].headers
                 ELSE None
             r == RouterCallTool(gw, server_info[1], actual_tool_name, auth_headers)
         IN  IF server_info = None
             THEN [ret |-> "ok",
                   request |-> Some(Request(server_name, server_name, "stdio",
                                            actual_tool_name, EmptyDict)),
                   handed |-> Some(auth_headers)]
             ELSE [ret |-> r.ret, request |-> r.request, handed |-> Some(auth_headers)]

\* call_remote_tool(tool_name, arguments, auth_header): [ret, request,
\* handed], handed being the auth_headers argument it gives the router's
\* call_tool when it gets that far
CallRemoteTool(st, gw, tool_name, auth_header) ==
    IF ~HasSep(tool_name)
    THEN [ret |-> "ValueError: Invalid tool name format", request |-> None, handed |-> None]
    ELSE LET server_name == SplitFirst(tool_name)[1]
             actual_tool_name == SplitFirst(tool_name)[2]
             server_info == RegistryGet(st, server_name)
             auth_config == GetAuthConfig(st, server_name)
             auth_headers ==
                 IF auth_header # None /\ auth_header[1] # ""
                 THEN Some(Headers(auth_header[1]))
                 ELSE IF auth_config # None /\ auth_config[1].headers # None
                            /\ auth_config[1].headers[1] # EmptyDict
                 THEN auth_config[1].headers
                 ELSE None
             r == RouterCallTool(gw, server_info[1], actual_tool_name, auth_headers)
         IN  IF server_info = None
             THEN [ret |-> "ValueError: Server not found", request |-> None, handed |-> None]
             ELSE [ret |-> r.ret, request |-> r.request, handed |-> Some(auth_headers)]

\* the longest query tool_search accepts
MaxQueryLen == 200

\* a query is refused from 200 characters on
QueryTooLongAt200(query) == Len(query) >= MaxQueryLen

\* len(query) > 200
QueryTooLong(query) == Len(query) > MaxQueryLen

\* a clamp that forgets the upper end
ClampResultsNoCap(max_results) ==
    IF max_results < 1 THEN 1 ELSE max_results

\* max(1, min(10, max_results))
ClampResults(max_results) ==
    LET capped == IF max_results > 10 THEN 10 ELSE max_results
    IN  IF capped < 1 THEN 1 ELSE capped

\* the namespaced names of a search result
RefNames(refs) == [i \in 1..Len(refs) |-> refs[i].v.namespaced_name]

RECURSIVE NextLookup(_, _, _)
\* the loop of _activate_tools_from_refs from position i on, up to the ref
\* whose metadata it has to fetch: active names and names without "__"
\* are passed over
NextLookup(act, refs, i) ==
    IF i > Len(refs) THEN i
    ELSE IF refs[i] \in act \/ ~HasSep(refs[i]) THEN NextLookup(act, refs, i + 1)
    ELSE i

\* _create_dynamic_tool raises for refs[i], and with it
\* _activate_tools_from_refs
ActivationRaises(w, t, refs, i) ==
    LET meta == GetToolMetadata(w.st, t, refs[i])
    IN  meta # None /\ CreateRaises(meta[1])

\* _activate_tools_from_refs once get_tool_metadata has answered for
\* refs[i]: the tool is created and recorded unless the metadata is absent
\* or the creation raises
ActivateRef(w, t, refs, i) ==
    LET namespaced_name == refs[i]
        server_name == SplitFirst(namespaced_name)[1]
        tool_name == SplitFirst(namespaced_name)[2]
        meta == GetToolMetadata(w.st, t, namespaced_name)
    IN  IF meta = None \/ CreateRaises(meta[1]) THEN w
        ELSE [w EXCEPT !.mcp = CreateDynamicTool(w.mcp, server_name, tool_name),
                       !.active = w.active \cup {namespaced_name}]

-----------------------------------------------------------------------------
(* Initial state: a fresh storage, an empty index, nothing activated *)

NumHandlers == 2
Handlers == 1..NumHandlers

NumCallers == 2
Callers == 1..NumCallers

\* no call running and none made yet
IdleCall == [pc |-> "idle", kind |-> "none", transport |-> "none", held |-> <<>>,
             acquired |-> 0, ret |-> "none", tools |-> <<>>]

NumTasks == 2
Tasks == 1..NumTasks

\* no registry call made yet
IdleTask == [pc |-> "idle", op |-> "none", name |-> <<>>, arg |-> <<>>,
             local |-> <<>>, ret |-> "none"]

IdleHandler == [pc |-> "idle", query |-> <<>>, refs |-> <<>>, i |-> 0, max_results |-> 0]

InitSummary ==
    [servers_loaded |-> 0, servers_failed |-> 0, servers_skipped |-> 0,
     total_tools |-> 0, servers |-> <<>>, entries |-> <<>>, done |-> FALSE]

\* the defaults of MCPOrchestratorServer.__init__
DefaultGateway == [auth_mode |-> "auto", transport |-> "stdio"]

\* the auth modes and transports the gateway can be started with
GatewayConfigs ==
    [auth_mode : {"auto", "static", "forward"}, transport : {"stdio", "http"}]

\* everything but the gateway's configuration and the search service's
\* library flag
InitCore ==
    /\ storage = EmptyStorage
    /\ now = 0
    /\ index = EmptyDict
    /\ active_tools = {}
    /\ mcp = <<>>
    /\ summary = InitSummary
    /\ handlers = [h \in Handlers |-> IdleHandler]
    /\ sent = <<>>
    /\ calls = [c \in Callers |-> IdleCall]
    /\ writes = EmptyDict
    /\ tasks = [t \in Tasks |-> IdleTask]
    /\ last = [op |-> "init", name |-> <<>>, ret |-> "ok", arg |-> <<>>]
    /\ steps = 0

\* "import whoosh" failed; only search_bm25 reads the flag, and the runs
\* that call it start from both of its values
NoWhoosh == whoosh_available = FALSE

Init == InitCore /\ NoWhoosh /\ gateway = DefaultGateway

\* a gateway started with any auth mode and transport
InitCall == InitCore /\ NoWhoosh /\ gateway \in GatewayConfigs

\* what the registry's operations leave alone
NotRegistry == <<now, index, active_tools, mcp, summary, handlers, sent, gateway, calls, writes, whoosh_available, tasks>>

Budget == /\ steps < MaxSteps
          /\ steps' = steps + 1

-----------------------------------------------------------------------------
(* The registry's operations, called one at a time *)

DoRegister(reg) ==
    LET r == Register(storage, now, reg)
    IN  /\ Budget
        /\ storage' = r.st
        /\ last' = [op |-> "register", name |-> reg.name, ret |-> r.ret, arg |-> reg]
        /\ UNCHANGED NotRegistry

DoUnregister(name) ==
    LET r == Unregister(storage, now, name)
    IN  /\ Budget
        /\ storage' = r.st
        /\ last' = [op |-> "unregister", name |-> name, ret |-> r.ret,
                    arg |-> [had_tools |-> GetTools(storage, now, name) # <<>>,
                             auth_type |-> IF RegistryGet(storage, name) = None THEN "absent"
                                           ELSE RegistryGet(storage, name)[1].auth_type]]
        /\ UNCHANGED NotRegistry

DoStoreTools(name, tools) ==
    /\ Budget
    /\ storage' = StoreTools(storage, now, name, tools)
    /\ last' = [op |-> "store_tools", name |-> name, ret |-> "ok", arg |-> tools]
    /\ UNCHANGED NotRegistry

DoUpdateStatus(name, status, error_message) ==
    LET r == UpdateStatus(storage, now, name, status, error_message)
    IN  /\ Budget
        /\ storage' = r.st
        /\ last' = [op |-> "update_status", name |-> name, ret |-> r.ret,
                    arg |-> [status |-> status, error_message |-> error_message]]
        /\ UNCHANGED NotRegistry

DoUpdateToolCount(name, count) ==
    LET r == UpdateToolCount(storage, name, count)
    IN  /\ Budget
        /\ storage' = r.st
        /\ last' = [op |-> "update_tool_count", name |-> name, ret |-> r.ret, arg |-> count]
        /\ UNCHANGED NotRegistry

ErrorMessages == {None, Some("boom")}

Next ==
    \/ \E reg \in Registrations : DoRegister(reg)
    \/ \E name \in ServerNames : DoUnregister(name)
    \/ \E name \in ServerNames, tools \in ToolLists : DoStoreTools(name, tools)
    \/ \E name \in ServerNames, count \in 0..MaxTools : DoUpdateToolCount(name, count)

Spec == Init /\ [][Next]_vars

-----------------------------------------------------------------------------
(* Bootstrap: load_and_register, one config entry per step *)

\* the entries a bootstrap config may hold
HttpEndpoint == [url |-> <<"https://", "h">>, transport |-> "http"]

\* the server names of bootstrap entries
BootNames == ServerNames

ConfigEntries ==
    {ConfigEntry(n, HttpEndpoint, a, en, ad, ex) :
        n \in BootNames, a \in {AuthConfig("none", None)},
        en \in BOOLEAN, ad \in BOOLEAN, ex \in BOOLEAN}

\* the tools a downstream server may list
DiscoveredTools == {Tool(<<>>), Tool(<<"a">>), DashedTool}

DiscoveredLists == UNION {[1..k -> DiscoveredTools] : k \in 0..MaxDiscovered}

DiscoveryOutcomes == {DiscoveryFailed} \cup {Discovered(ts) : ts \in DiscoveredLists}

\* what the log keeps of an entry: whether it was enabled, whether its
\* registration succeeded, how its discovery ended and with how many tools
EntryLog(entry, outcome, registered) ==
    [name |-> entry.name, enabled |-> entry.enabled,
     registered |-> entry.enabled /\ registered,
     discovery |-> IF ~(entry.enabled /\ registered /\ entry.auto_discover) THEN "none"
                   ELSE IF outcome.ok THEN "ok" ELSE "failed",
     n |-> IF entry.enabled /\ registered /\ entry.auto_discover /\ outcome.ok
           THEN Len(outcome.tools) ELSE 0]

LoadEntry(entry, outcome) ==
    LET w == World(storage, index, active_tools, mcp)
        r == IF entry.enabled
             THEN RegisterServer(w, now, entry, outcome)
             ELSE [w |-> w, success |-> FALSE, tool_count |-> 0, wrote |-> FALSE]
        registered == RegistryGet(storage, entry.name) = None
    IN  /\ ~summary.done
        /\ Len(summary.entries) < MaxEntries
        \* discovery runs for an enabled, registered, auto_discover entry only
        /\ (entry.enabled /\ registered /\ entry.auto_discover) \/ outcome = DiscoveryFailed
        /\ storage' = r.w.st
        /\ index' = r.w.index
        /\ active_tools' = r.w.active
        /\ mcp' = r.w.mcp
        /\ summary' = [CountEntry(summary, entry, r) EXCEPT
                          !.entries = Append(@, EntryLog(entry, outcome, registered))]
        /\ last' = [op |-> "load_entry", name |-> entry.name,
                    ret |-> IF ~entry.enabled THEN "skipped"
                            ELSE IF r.success THEN "loaded" ELSE "failed",
                    arg |-> [wrote |-> r.wrote]]
        /\ steps' = steps + 1
        /\ UNCHANGED <<now, handlers, sent, gateway, calls, writes, whoosh_available, tasks>>

\* load_and_register returns its summary
LoadDone ==
    /\ ~summary.done
    /\ summary' = [summary EXCEPT !.done = TRUE]
    /\ last' = [op |-> "load_and_register", name |-> <<>>, ret |-> "ok", arg |-> <<>>]
    /\ steps' = steps + 1
    /\ UNCHANGED <<storage, now, index, active_tools, mcp, handlers, sent, gateway, calls, writes, whoosh_available, tasks>>

NextLoader ==
    \/ \E entry \in ConfigEntries, outcome \in DiscoveryOutcomes : LoadEntry(entry, outcome)
    \/ LoadDone

SpecLoader == Init /\ [][NextLoader]_vars

-----------------------------------------------------------------------------
(* call_remote_tool against a registry filled through register *)

\* the names callers ask for: server__tool for every server name, and a
\* name without "__"
CallNames == {NamespacedName(n, <<"a">>) : n \in ServerNames} \cup {<<"a">>}

\* the auth_header argument: left out, empty, or a client's credential
AuthHeaders == {None, Some(""), Some("Bearer C")}

DoCallRemoteTool(tool_name, auth_header) ==
    LET r == CallRemoteTool(storage, gateway, tool_name, auth_header)
    IN  /\ Budget
        /\ sent' = IF r.request = None THEN sent ELSE Append(sent, r.request[1])
        /\ last' = [op |-> "call_remote_tool", name |-> tool_name,
                    ret |-> r.ret,
                    arg |-> [auth_header |-> auth_header, request |-> r.request,
                             handed |-> r.handed]]
        /\ UNCHANGED <<storage, now, index, active_tools, mcp, summary, handlers, gateway, calls, writes, whoosh_available, tasks>>

NextCall ==
    \/ \E reg \in Registrations : DoRegister(reg)
    \/ \E tool_name \in CallNames, auth_header \in AuthHeaders :
          DoCallRemoteTool(tool_name, auth_header)

SpecCall == InitCall /\ [][NextCall]_vars

-----------------------------------------------------------------------------
(* tool_search after bootstrap; a handler is suspended while the registry
   fetches a tool's metadata *)

\* the entries a config holds in the runs that go on to serve searches
MaxServed == 2

\* the largest max_results asked for
MaxResults == 2

Queries == {<<>>, <<"a">>, <<"_", "a">>, <<"d">>, <<"(">>}

AllIdle == \A h \in Handlers : handlers[h].pc = "idle"

\* the handler moves on from position i: to the next metadata fetch, or
\* to the end of tool_search; max_results is the argument of the call as
\* it was made, total_matches is len(tool_refs)
Advance(h, query, refs, i, max_results) ==
    IF i > Len(refs)
    THEN /\ handlers' = [handlers EXCEPT ![h] = [pc |-> "idle", query |-> query, refs |-> refs,
                                                 i |-> 0, max_results |-> 0]]
         /\ last' = [op |-> "tool_search", name |-> query, ret |-> "success",
                     arg |-> [h |-> h, refs |-> refs, max_results |-> max_results,
                              total_matches |-> Len(refs)]]
    ELSE /\ handlers' = [handlers EXCEPT ![h] = [pc |-> "lookup", query |-> query, refs |-> refs,
                                                 i |-> i, max_results |-> max_results]]
         /\ last' = [op |-> "tool_search", name |-> query, ret |-> "pending",
                     arg |-> [h |-> h, refs |-> refs]]

\* search(query, limit, use_regex)
Search(idx, whoosh, query, limit, use_regex) ==
    IF use_regex THEN SearchRegex(idx, query, limit)
    ELSE SearchBm25(idx, whoosh, query, limit)

\* tool_search(query, max_results, use_regex) up to its first suspension
\* or its return
ToolSearch(h, query, max_results, use_regex) ==
    /\ summary.done
    /\ handlers[h].pc = "idle"
    /\ Budget
    /\ IF QueryTooLong(query)
       THEN /\ last' = [op |-> "tool_search", name |-> query, ret |-> "query_too_long",
                        arg |-> [h |-> h, refs |-> <<>>]]
            /\ handlers' = [handlers EXCEPT ![h] = IdleHandler]
       ELSE IF use_regex /\ InvalidPattern(query)
       THEN /\ last' = [op |-> "tool_search", name |-> query, ret |-> "invalid_pattern",
                        arg |-> [h |-> h, refs |-> <<>>]]
            /\ handlers' = [handlers EXCEPT ![h] = IdleHandler]
       ELSE LET refs == RefNames(Search(index, whoosh_available, query,
                                        ClampResults(max_results), use_regex))
            IN  Advance(h, query, refs, NextLookup(active_tools, refs, 1), max_results)
    /\ UNCHANGED <<storage, now, index, active_tools, mcp, summary, sent, gateway, calls, writes, whoosh_available, tasks>>

\* tool_search ends in one of its except clauses
Fail(h, query, refs, error_code) ==
    /\ handlers' = [handlers EXCEPT ![h] = [pc |-> "idle", query |-> query,
                                            refs |-> <<>>, i |-> 0, max_results |-> 0]]
    /\ last' = [op |-> "tool_search", name |-> query, ret |-> error_code,
                arg |-> [h |-> h, refs |-> refs]]

\* get_tool_metadata answers, or the storage call raises, and the handler
\* runs on: a ValueError out of the activation is reported as
\* invalid_pattern, any other exception as unavailable
ToolSearchResume(h, storage_ok) ==
    LET hd == handlers[h]
        w0 == World(storage, index, active_tools, mcp)
        w == ActivateRef(w0, now, hd.refs, hd.i)
    IN  /\ hd.pc = "lookup"
        /\ IF ~storage_ok
           THEN /\ Fail(h, hd.query, hd.refs, "unavailable")
                /\ UNCHANGED <<mcp, active_tools>>
           ELSE IF ActivationRaises(w0, now, hd.refs, hd.i)
           THEN /\ Fail(h, hd.query, hd.refs, "invalid_pattern")
                /\ UNCHANGED <<mcp, active_tools>>
           ELSE /\ mcp' = w.mcp
                /\ active_tools' = w.active
                /\ Advance(h, hd.query, hd.refs, NextLookup(w.active, hd.refs, hd.i + 1),
                           hd.max_results)
        /\ UNCHANGED <<storage, now, index, summary, sent, gateway, calls, writes, whoosh_available, tasks, steps>>

Boot ==
    \/ \E entry \in ConfigEntries, outcome \in DiscoveryOutcomes :
          Len(summary.entries) < MaxServed /\ LoadEntry(entry, outcome)
    \/ LoadDone

\* searches issued one after the other
NextSeq ==
    \/ Boot
    \/ \E h \in Handlers, query \in Queries, max_results \in 0..MaxResults :
          AllIdle /\ ToolSearch(h, query, max_results, TRUE)
    \/ \E h \in Handlers, storage_ok \in BOOLEAN : ToolSearchResume(h, storage_ok)

SpecSeq == Init /\ [][NextSeq]_vars

\* searches in flight at once
NextServe ==
    \/ Boot
    \/ \E h \in Handlers, query \in Queries, max_results \in 0..MaxResults :
          ToolSearch(h, query, max_results, TRUE)
    \/ \E h \in Handlers, storage_ok \in BOOLEAN : ToolSearchResume(h, storage_ok)

SpecServe == Init /\ [][NextServe]_vars

-----------------------------------------------------------------------------
(* The router and discovery against downstream servers that may refuse,
   fail, answer or stay silent *)

\* the transports a caller may pass: the three the router knows and one
\* it does not
RouterTransports == {"http", "stdio", "sse", "ws"}

Urls == {<<"https://", "h">>, <<"cmd">>}

\* what a downstream server answers to list_tools
Listings ==
    {<<>>,
     <<[name |-> <<"a">>, description |-> None, inputSchema |-> EmptySchema]>>,
     <<[name |-> <<"a">>, description |-> Some(<<"d">>), inputSchema |-> EmptySchema]>>}

SetCall(c, call) == calls' = [calls EXCEPT ![c] = call]

RouterOnly == <<storage, now, index, active_tools, mcp, summary, handlers, sent,
                gateway, writes, whoosh_available, tasks, last, steps>>

\* ToolRouter.call_tool(server_name, server_url, tool_name, ..., transport)
\* up to the first context manager
RouterStart(c, transport, url) ==
    LET info == [name |-> <<"a">>, url |-> url, transport |-> transport, command |-> None]
        r == RouterCallTool(gateway, info, <<"a">>, None)
        fresh == [IdleCall EXCEPT !.kind = "call", !.transport = transport]
    IN  /\ calls[c].pc = "idle"
        /\ SetCall(c, IF r.request = None THEN [fresh EXCEPT !.ret = r.ret]
                      ELSE [fresh EXCEPT !.pc = "opening"])
        /\ UNCHANGED RouterOnly

\* _discover_tools(name, url, transport, ...) up to the first context
\* manager
DiscoverStart(c, transport) ==
    LET fresh == [IdleCall EXCEPT !.kind = "discover", !.transport = transport]
    IN  /\ calls[c].pc = "idle"
        /\ SetCall(c, IF DiscoverSupported(transport) THEN [fresh EXCEPT !.pc = "opening"]
                      ELSE [fresh EXCEPT !.ret = "ok"])
        /\ UNCHANGED RouterOnly

\* the next context manager is entered, or entering it raises; the
\* construction of httpx.AsyncClient does not raise
Acquire(c, ok) ==
    LET call == calls[c]
        plan == PlanOf(call)
        next == plan[Len(call.held) + 1]
        held == Append(call.held, next)
    IN  /\ call.pc = "opening"
        /\ next = "http_client" => ok
        /\ SetCall(c, IF ok
                      THEN [call EXCEPT !.held = held, !.acquired = @ + 1,
                                        !.pc = IF Len(held) = Len(plan)
                                               THEN "initialize" ELSE "opening"]
                      ELSE Exit(call, "error"))
        /\ UNCHANGED RouterOnly

\* session.initialize() returns or raises
Initialize(c, ok) ==
    LET call == calls[c]
    IN  /\ call.pc = "initialize"
        /\ SetCall(c, IF ok THEN [call EXCEPT !.pc = "request"] ELSE Exit(call, "error"))
        /\ UNCHANGED RouterOnly

\* session.call_tool / session.list_tools returns or raises
Answer(c, ok, listing) ==
    LET call == calls[c]
    IN  /\ call.pc = "request"
        /\ (call.kind = "call" \/ ~ok) => listing = <<>>
        /\ SetCall(c, IF ok
                      THEN Exit([call EXCEPT !.tools = ExtractTools(listing)], "ok")
                      ELSE Exit(call, "error"))
        /\ UNCHANGED RouterOnly

\* the deadline of asyncio.timeout passes
Deadline(c) ==
    /\ DeadlineArmed(calls[c])
    /\ SetCall(c, Exit(calls[c], TimeoutReason(calls[c].kind)))
    /\ UNCHANGED RouterOnly

\* the caller's task is cancelled
Cancel(c) ==
    /\ InFlight(calls[c])
    /\ SetCall(c, Exit(calls[c], "CancelledError"))
    /\ UNCHANGED RouterOnly

\* the innermost context manager still held exits
Release(c) ==
    /\ calls[c].pc = "unwinding"
    /\ SetCall(c, ReleaseInnermost(calls[c]))
    /\ UNCHANGED RouterOnly

NextRouter ==
    \/ \E c \in Callers, transport \in RouterTransports, url \in Urls :
          RouterStart(c, transport, url)
    \/ \E c \in Callers, transport \in RouterTransports : DiscoverStart(c, transport)
    \/ \E c \in Callers, ok \in BOOLEAN : Acquire(c, ok)
    \/ \E c \in Callers, ok \in BOOLEAN : Initialize(c, ok)
    \/ \E c \in Callers, ok \in BOOLEAN, listing \in Listings : Answer(c, ok, listing)
    \/ \E c \in Callers : Deadline(c)
    \/ \E c \in Callers : Cancel(c)
    \/ \E c \in Callers : Release(c)

SpecRouter == Init /\ [][NextRouter]_vars

\* what the runtime itself does without waiting for anyone: the exits of
\* the context managers and the construction of the HTTP client
LocalStep(c) ==
    \/ Release(c)
    \/ (/\ calls[c].pc = "opening"
        /\ PlanOf(calls[c])[Len(calls[c].held) + 1] = "http_client"
        /\ Acquire(c, TRUE))

\* the event loop runs a ready task and fires a due timer; the downstream
\* server owes nothing
SpecRouterFair ==
    SpecRouter /\ \A c \in Callers : WF_vars(LocalStep(c)) /\ WF_vars(Deadline(c))

-----------------------------------------------------------------------------
(* The router's auth policy on its own, for every way a ToolRouter can be
   constructed *)

\* ToolRouter.__init__: gateway_auth_mode and gateway_transport
RouterConfigs ==
    [auth_mode : {"auto", "static", "forward"},
     transport : {"stdio", "sse", "http", "streamable-http"}]

InitAuth == InitCore /\ NoWhoosh /\ gateway \in RouterConfigs

\* the headers a server is registered with: none, an empty dict, a
\* credential
ServerAuthHeaders == {None, Some(EmptyDict), Some(Headers("Bearer S"))}

ServerTransports == {"http", "stdio", "sse"}

DoGetEffectiveAuthHeaders(server_auth_headers, client_auth_header, server_transport) ==
    /\ last' = [op |-> "_get_effective_auth_headers", name |-> <<>>,
                ret |-> GetEffectiveAuthHeaders(gateway, server_auth_headers,
                                                client_auth_header, server_transport),
                arg |-> [server_auth_headers |-> server_auth_headers,
                         client_auth_header |-> client_auth_header,
                         server_transport |-> server_transport]]
    /\ UNCHANGED <<storage, now, index, active_tools, mcp, summary, handlers, sent,
                   gateway, calls, writes, whoosh_available, tasks, steps>>

NextAuth ==
    \E server_auth_headers \in ServerAuthHeaders, client_auth_header \in AuthHeaders,
       server_transport \in ServerTransports :
        DoGetEffectiveAuthHeaders(server_auth_headers, client_auth_header, server_transport)

SpecAuth == InitAuth /\ [][NextAuth]_vars

-----------------------------------------------------------------------------
(* The live index against one rebuilt from the stored metadata *)

\* regex queries over the model's symbols; a space is what
\* _build_searchable_text joins the parts with
IndexQueries == {<<>>, <<"a">>, <<"d">>, <<"a", " ", "a">>, <<"a", " ", "d">>}

\* store_tools(name, tools) followed by index_tools(name, tools), as
\* _register_server does after a discovery
DoStoreAndIndex(name, tools) ==
    /\ Budget
    /\ storage' = StoreTools(storage, now, name, tools)
    /\ index' = IndexTools(index, name, tools)
    /\ last' = [op |-> "index_tools", name |-> name, ret |-> "ok", arg |-> tools]
    /\ UNCHANGED <<now, active_tools, mcp, summary, handlers, sent, gateway, calls, writes, whoosh_available, tasks>>

\* search_regex(query, limit) on the live index, and on a fresh index
\* filled by index_all_metadata(get_all_tool_metadata())
DoSearchBoth(query, limit) ==
    LET rebuilt == IndexAllMetadata(EmptyDict, GetAllToolMetadata(storage, now))
    IN  /\ last' = [op |-> "search_regex", name |-> query,
                    ret |-> ToolReferences(SearchRegex(index, query, limit)),
                    arg |-> [rebuilt |-> ToolReferences(SearchRegex(rebuilt, query, limit))]]
        /\ UNCHANGED <<storage, now, index, active_tools, mcp, summary, handlers, sent,
                       gateway, calls, writes, whoosh_available, tasks, steps>>

NextIndex ==
    \/ \E name \in ServerNames, tools \in ToolLists : DoStoreAndIndex(name, tools)
    \/ \E query \in IndexQueries, limit \in 1..MaxResults : DoSearchBoth(query, limit)

SpecIndex == Init /\ [][NextIndex]_vars

-----------------------------------------------------------------------------
(* InMemoryStorage on its own, with time passing between the calls *)

\* how far the clock runs
MaxClock == 3

PlainKeys == {<<"k">>, <<"j">>}
PlainValues == {"v", "w"}

\* the ttl argument of set: left out, or a number of seconds
Ttls == {None, Some(0), Some(1), Some(2)}

KeyPatterns == {<<"*">>, <<"k", "*">>}

HashFields == {<<"f">>, <<"g">>}

StorageOnly == <<index, active_tools, mcp, summary, handlers, sent, gateway, calls,
                 whoosh_available, tasks>>

\* time.time() moves on
Tick ==
    /\ now < MaxClock
    /\ now' = now + 1
    /\ UNCHANGED <<storage, writes, last, steps>>
    /\ UNCHANGED StorageOnly

DoSet(key, value, ttl) ==
    /\ Budget
    /\ storage' = StorageSet(storage, now, key, value, ttl)
    /\ writes' = DictSet(writes, key, [at |-> now, ttl |-> ttl])
    /\ last' = [op |-> "set", name |-> key, ret |-> "ok", arg |-> [value |-> value, ttl |-> ttl]]
    /\ UNCHANGED now
    /\ UNCHANGED StorageOnly

DoGet(key) ==
    /\ Budget
    /\ storage' = Evict(storage, now, key)
    /\ last' = [op |-> "get", name |-> key, ret |-> StorageGet(storage, now, key), arg |-> <<>>]
    /\ UNCHANGED <<now, writes>>
    /\ UNCHANGED StorageOnly

DoExists(key) ==
    /\ Budget
    /\ storage' = Evict(storage, now, key)
    /\ last' = [op |-> "exists", name |-> key, ret |-> StorageExists(storage, now, key),
                arg |-> <<>>]
    /\ UNCHANGED <<now, writes>>
    /\ UNCHANGED StorageOnly

DoKeys(pattern) ==
    /\ Budget
    /\ storage' = CleanupExpired(storage, now)
    /\ last' = [op |-> "keys", name |-> pattern, ret |-> StorageKeys(storage, now, pattern),
                arg |-> <<>>]
    /\ UNCHANGED <<now, writes>>
    /\ UNCHANGED StorageOnly

DoDelete(key) ==
    /\ Budget
    /\ storage' = StorageDelete(storage, key)
    /\ writes' = DictDel(writes, key)
    /\ last' = [op |-> "delete", name |-> key, ret |-> StorageDeleteRet(storage, key),
                arg |-> <<>>]
    /\ UNCHANGED now
    /\ UNCHANGED StorageOnly

DoHSet(key, field, value) ==
    /\ Budget
    /\ storage' = StorageHSet(storage, key, field, value)
    /\ last' = [op |-> "hset", name |-> key, ret |-> "ok",
                arg |-> [field |-> field, value |-> value]]
    /\ UNCHANGED <<now, writes>>
    /\ UNCHANGED StorageOnly

DoHDel(key, field) ==
    /\ Budget
    /\ storage' = StorageHDel(storage, key, field)
    /\ last' = [op |-> "hdel", name |-> key, ret |-> StorageHDelRet(storage, key, field),
                arg |-> [field |-> field]]
    /\ UNCHANGED <<now, writes>>
    /\ UNCHANGED StorageOnly

NextStorage ==
    \/ Tick
    \/ \E key \in PlainKeys, value \in PlainValues, ttl \in Ttls : DoSet(key, value, ttl)
    \/ \E key \in PlainKeys : DoGet(key)
    \/ \E key \in PlainKeys : DoExists(key)
    \/ \E pattern \in KeyPatterns : DoKeys(pattern)
    \/ \E key \in PlainKeys : DoDelete(key)
    \/ \E field \in HashFields, value \in PlainValues : DoHSet(<<"k">>, field, value)
    \/ \E field \in HashFields : DoHDel(<<"k">>, field)

SpecStorage == Init /\ [][NextStorage]_vars

-----------------------------------------------------------------------------
(* The search index as servers' tools are indexed and removed *)

IndexOnly == <<storage, now, active_tools, mcp, summary, handlers, sent, gateway, calls,
               writes, whoosh_available, tasks>>

DoIndexTools(name, tools) ==
    /\ Budget
    /\ index' = IndexTools(index, name, tools)
    /\ last' = [op |-> "index_tools", name |-> name, ret |-> "ok", arg |-> tools]
    /\ UNCHANGED IndexOnly

DoRemoveServerTools(name) ==
    /\ Budget
    /\ index' = RemoveServerTools(index, name)
    /\ last' = [op |-> "remove_server_tools", name |-> name, ret |-> "ok", arg |-> <<>>]
    /\ UNCHANGED IndexOnly

NextRemove ==
    \/ \E name \in ServerNames, tools \in ToolLists : DoIndexTools(name, tools)
    \/ \E name \in ServerNames : DoRemoveServerTools(name)

SpecRemove == Init /\ [][NextRemove]_vars

-----------------------------------------------------------------------------
(* search_bm25 over a small catalogue, with and without the library *)

Bm25Names == {<<"a", "d", "d">>, <<"d", "a", "d">>, <<"A", "d", "d", "_", "d", "a", "d">>}

Bm25Descriptions ==
    {<<"a", "d", "d">>, <<"d", "a", "d">>,
     <<"a", "d", "d", " ", "a", "n", "d", " ", "d", "a", "d">>}

Bm25Tools ==
    {[name |-> n, description |-> d, input_schema |-> EmptySchema] :
        n \in Bm25Names, d \in Bm25Descriptions}

\* a keyword, a keyword in capitals, two keywords either way round, a
\* stop word, a word too short to count
Bm25Queries ==
    {<<"a", "d", "d">>, <<"D", "a", "d">>,
     <<"a", "d", "d", " ", "d", "a", "d">>, <<"d", "a", "d", " ", "a", "d", "d">>,
     <<"a", "n", "d">>, <<"a", "d">>}

\* ToolSearchService.__init__: the import of whoosh works or fails
InitBm25 == InitCore /\ gateway = DefaultGateway /\ whoosh_available \in BOOLEAN

DoSearchBm25(query, limit) ==
    /\ Budget
    /\ last' = [op |-> "search_bm25", name |-> query,
                ret |-> SearchBm25(index, whoosh_available, query, limit),
                arg |-> [limit |-> limit]]
    /\ UNCHANGED <<index, storage, now, active_tools, mcp, summary, handlers, sent,
                   gateway, calls, writes, whoosh_available, tasks>>

NextBm25 ==
    \/ \E tool \in Bm25Tools : DoIndexTools(<<"a">>, <<tool>>)
    \/ \E query \in Bm25Queries, limit \in 0..MaxResults : DoSearchBm25(query, limit)

SpecBm25 == InitBm25 /\ [][NextBm25]_vars

-----------------------------------------------------------------------------
(* The registry's records under update_status and update_tool_count, with
   the clock running *)

RecordNames == {<<"a">>, <<"a", "_">>}

RecordRegistrations ==
    {ServerRegistration(n, HttpEndpoint, a) :
        n \in RecordNames,
        a \in {AuthConfig("none", None), AuthConfig("static", Some(Headers("Bearer S")))}}

RecordStatuses == {"active", "error"}

NextRecords ==
    \/ Tick
    \/ \E reg \in RecordRegistrations : DoRegister(reg)
    \/ \E name \in RecordNames : DoUnregister(name)
    \/ \E name \in RecordNames : DoStoreTools(name, <<Tool(<<"a">>)>>)
    \/ \E name \in RecordNames, status \in RecordStatuses, error_message \in ErrorMessages :
          DoUpdateStatus(name, status, error_message)
    \/ \E name \in RecordNames, count \in 0..MaxTools : DoUpdateToolCount(name, count)

SpecRecords == Init /\ [][NextRecords]_vars

-----------------------------------------------------------------------------
(* Registry calls in flight at once (registry.py): every storage call is
   awaited, and between two awaits of one call another call may run. A
   step of a task is one storage call together with the code that runs
   before the next one. InMemoryStorage's methods never suspend, so with
   it the steps of a call run back to back; a backend that does I/O lets
   them interleave. *)

Finished(task, ret) == [task EXCEPT !.pc = "done", !.local = <<>>, !.ret = ret]

RECURSIVE FromNamed(_)
\* the tools of a list from the first named one on: the loop of
\* store_tools passes over a tool without a name
FromNamed(tools) ==
    IF tools = <<>> THEN <<>>
    ELSE IF Head(tools).name # <<>> THEN tools
    ELSE FromNamed(Tail(tools))

\* the call up to and including its first storage call: [st, task]
TaskBegin(st, t, req) ==
    LET task == [pc |-> "run", op |-> req.op, name |-> req.name, arg |-> req.arg,
                 local |-> <<>>, ret |-> "none"]
        existing == RegistryGet(st, req.name)
    IN  CASE req.op = "register" ->
                 [st |-> st,
                  task |-> IF existing # None THEN Finished(task, "Conflict")
                           ELSE [task EXCEPT !.pc = "hset"]]
          [] req.op = "unregister" ->
                 [st |-> st,
                  task |-> IF existing = None THEN Finished(task, "false")
                           ELSE [task EXCEPT !.pc = "hdel"]]
          [] req.op \in {"update_status", "update_tool_count"} ->
                 [st |-> st,
                  task |-> IF existing = None THEN Finished(task, "false")
                           ELSE [task EXCEPT !.pc = "hset", !.local = existing[1]]]
          [] req.op = "store_tools" ->
                 [st |-> StorageSet(st, t, ToolsKey(req.name), req.arg, None),
                  task |-> IF FromNamed(req.arg) = <<>> THEN Finished(task, "ok")
                           ELSE [task EXCEPT !.pc = "set_meta", !.local = FromNamed(req.arg)]]

\* the call's next storage call: [st, task]
TaskAdvance(st, t, task) ==
    CASE task.op = "register" /\ task.pc = "hset" ->
             [st |-> StorageHSet(st, ServersKey, task.name, ServerInfo(task.arg, t)),
              task |-> IF task.arg.auth.type # "none"
                       THEN [task EXCEPT !.pc = "hset_auth"]
                       ELSE Finished(task, "ok")]
      [] task.op = "register" /\ task.pc = "hset_auth" ->
             [st |-> StorageHSet(st, AuthKey(task.name), <<"config">>, task.arg.auth),
              task |-> Finished(task, "ok")]
      [] task.op = "unregister" /\ task.pc = "hdel" ->
             [st |-> StorageHDel(st, ServersKey, task.name),
              task |-> [task EXCEPT !.pc = "delete_auth"]]
      [] task.op = "unregister" /\ task.pc = "delete_auth" ->
             [st |-> StorageDelete(st, AuthKey(task.name)),
              task |-> [task EXCEPT !.pc = "delete_tools"]]
      [] task.op = "unregister" /\ task.pc = "delete_tools" ->
             [st |-> StorageDelete(st, ToolsKey(task.name)),
              task |-> [task EXCEPT !.pc = "keys"]]
      [] task.op = "unregister" /\ task.pc = "keys" ->
             LET keys == StorageKeys(st, t, ToolMetaPattern(task.name))
             IN  [st |-> CleanupExpired(st, t),
                  task |-> IF keys = <<>> THEN Finished(task, "true")
                           ELSE [task EXCEPT !.pc = "delete_meta", !.local = keys]]
      [] task.op = "unregister" /\ task.pc = "delete_meta" ->
             [st |-> StorageDelete(st, Head(task.local)),
              task |-> IF Tail(task.local) = <<>> THEN Finished(task, "true")
                       ELSE [task EXCEPT !.local = Tail(task.local)]]
      [] task.op = "update_status" /\ task.pc = "hset" ->
             [st |-> StorageHSet(st, ServersKey, task.name,
                                 [task.local EXCEPT
                                    !.status = task.arg.status,
                                    !.last_health_check = Some(t),
                                    !.error_message = IF task.arg.error_message # None
                                                      THEN task.arg.error_message ELSE @]),
              task |-> Finished(task, "true")]
      [] task.op = "update_tool_count" /\ task.pc = "hset" ->
             [st |-> StorageHSet(st, ServersKey, task.name,
                                 [task.local EXCEPT !.tool_count = task.arg]),
              task |-> Finished(task, "true")]
      [] task.op = "store_tools" /\ task.pc = "set_meta" ->
             LET tool == Head(task.local)
                 rest == FromNamed(Tail(task.local))
             IN  [st |-> StoreToolMetadata(st, t, task.name, tool.name, tool),
                  task |-> IF rest = <<>> THEN Finished(task, "ok")
                           ELSE [task EXCEPT !.local = rest]]

-----------------------------------------------------------------------------
(* The registry over RedisStorage (storage/redis.py): storage.hashes holds
   what the redis server holds, every value as the JSON text _serialize
   made of it *)

\* json.dumps(value): a ServerInfo dump carries registered_at (and, once
\* set, last_health_check) as datetime objects, which json.dumps refuses
\* with TypeError; an AuthConfig dump holds strings, dicts and None only
\* and comes back from json.loads as it went in
Serialize(value) ==
    IF "registered_at" \in DOMAIN value
    THEN [raised |-> TRUE, json |-> None]
    ELSE [raised |-> FALSE, json |-> Some(value)]

\* json.loads of what hget returned
Deserialize(value) == IF value = None THEN None ELSE value[1].json

\* RedisStorage.hget(key, field)
RedisHGet(st, key, field) == Deserialize(StorageHGet(st, key, field))

\* RedisStorage.hset(key, field, value): [st, raised]
RedisHSet(st, key, field, value) ==
    IF Serialize(value).raised
    THEN [st |-> st, raised |-> TRUE]
    ELSE [st |-> StorageHSet(st, key, field, [json |-> Serialize(value).json]),
          raised |-> FALSE]

\* get(name) over RedisStorage
RedisGet(st, name) == RedisHGet(st, ServersKey, name)

\* register(registration) over RedisStorage
RedisRegister(st, t, reg) ==
    IF RedisGet(st, reg.name) # None
    THEN [st |-> st, ret |-> "Conflict"]
    ELSE LET w1 == RedisHSet(st, ServersKey, reg.name, ServerInfo(reg, t))
             w2 == IF reg.auth.type # "none"
                   THEN RedisHSet(w1.st, AuthKey(reg.name), <<"config">>, reg.auth)
                   ELSE w1
         IN  IF w1.raised THEN [st |-> st, ret |-> "TypeError"]
             ELSE IF w2.raised THEN [st |-> w1.st, ret |-> "TypeError"]
             ELSE [st |-> w2.st, ret |-> "ok"]

\* update_status(name, status, error_message) over RedisStorage
RedisUpdateStatus(st, t, name, status, error_message) ==
    IF RedisGet(st, name) = None
    THEN [st |-> st, ret |-> "false"]
    ELSE LET server == RedisGet(st, name)[1]
             updated == [server EXCEPT
                           !.status = status,
                           !.last_health_check = Some(t),
                           !.error_message = IF error_message # None
                                             THEN error_message ELSE @]
             w == RedisHSet(st, ServersKey, name, updated)
         IN  [st |-> w.st, ret |-> IF w.raised THEN "TypeError" ELSE "true"]

\* update_tool_count(name, count) over RedisStorage
RedisUpdateToolCount(st, name, count) ==
    IF RedisGet(st, name) = None
    THEN [st |-> st, ret |-> "false"]
    ELSE LET w == RedisHSet(st, ServersKey, name,
                            [RedisGet(st, name)[1] EXCEPT !.tool_count = count])
         IN  [st |-> w.st, ret |-> IF w.raised THEN "TypeError" ELSE "true"]

DoRedisRegister(reg) ==
    LET r == RedisRegister(storage, now, reg)
    IN  /\ Budget
        /\ storage' = r.st
        /\ last' = [op |-> "register", name |-> reg.name, ret |-> r.ret,
                    arg |-> [written |-> ServerInfo(reg, now),
                             read |-> RedisGet(r.st, reg.name)]]
        /\ UNCHANGED NotRegistry

DoRedisUpdateStatus(name, status, error_message) ==
    LET r == RedisUpdateStatus(storage, now, name, status, error_message)
    IN  /\ Budget
        /\ storage' = r.st
        /\ last' = [op |-> "update_status", name |-> name, ret |-> r.ret,
                    arg |-> [status |-> status, error_message |-> error_message]]
        /\ UNCHANGED NotRegistry

DoRedisUpdateToolCount(name, count) ==
    LET r == RedisUpdateToolCount(storage, name, count)
    IN  /\ Budget
        /\ storage' = r.st
        /\ last' = [op |-> "update_tool_count", name |-> name, ret |-> r.ret, arg |-> count]
        /\ UNCHANGED NotRegistry

NextRedis ==
    \/ Tick
    \/ \E reg \in RecordRegistrations : DoRedisRegister(reg)
    \/ \E name \in RecordNames, status \in RecordStatuses, error_message \in ErrorMessages :
          DoRedisUpdateStatus(name, status, error_message)
    \/ \E name \in RecordNames, count \in 0..MaxTools : DoRedisUpdateToolCount(name, count)

SpecRedis == Init /\ [][NextRedis]_vars

-----------------------------------------------------------------------------
(* Two registry calls in flight over a registry that was filled one call
   at a time; each task makes one call *)

TaskNames == {<<"a">>}

TaskRegistrations ==
    {ServerRegistration(n, HttpEndpoint, a) :
        n \in TaskNames,
        a \in {AuthConfig("none", None), AuthConfig("static", Some(Headers("Bearer S")))}}

\* the calls a task may make
TaskRequests ==
    {[op |-> "register", name |-> reg.name, arg |-> reg] : reg \in TaskRegistrations}
    \cup {[op |-> "unregister", name |-> n, arg |-> <<>>] : n \in TaskNames}
    \cup {[op |-> "update_status", name |-> n,
           arg |-> [status |-> status, error_message |-> None]] :
             n \in TaskNames, status \in RecordStatuses}
    \cup {[op |-> "update_tool_count", name |-> n, arg |-> 1] : n \in TaskNames}
    \cup {[op |-> "store_tools", name |-> n, arg |-> <<Tool(<<"a">>)>>] : n \in TaskNames}

NoTaskYet == \A t \in Tasks : tasks[t].pc = "idle"

\* what a step of a task leaves alone
TaskOnly == <<now, index, active_tools, mcp, summary, handlers, sent, gateway, calls,
              writes, whoosh_available, last, steps>>

\* a task makes its call
TaskCall(t, req) ==
    LET r == TaskBegin(storage, now, req)
    IN  /\ tasks[t].pc = "idle"
        /\ storage' = r.st
        /\ tasks' = [tasks EXCEPT ![t] = r.task]
        /\ UNCHANGED TaskOnly

\* a task's call resumes and makes its next storage call
TaskStep(t) ==
    LET r == TaskAdvance(storage, now, tasks[t])
    IN  /\ tasks[t].pc \notin {"idle", "done"}
        /\ storage' = r.st
        /\ tasks' = [tasks EXCEPT ![t] = r.task]
        /\ UNCHANGED TaskOnly

NextTasks ==
    \/ Tick
    \/ \E reg \in TaskRegistrations : NoTaskYet /\ DoRegister(reg)
    \/ \E name \in TaskNames : NoTaskYet /\ DoStoreTools(name, <<Tool(<<"a">>)>>)
    \/ \E t \in Tasks, req \in TaskRequests : TaskCall(t, req)
    \/ \E t \in Tasks : TaskStep(t)

SpecTasks == Init /\ [][NextTasks]_vars

-----------------------------------------------------------------------------
(* tool_search at the ends of its arguments' ranges: a catalogue larger
   than the cap on max_results, queries at and beyond the length limit *)

\* the number of tools the downstream server lists: one more than the cap
CatalogueSize == 11

\* the character c, n times
Repeat(c, n) == [i \in 1..n |-> c]

\* a tool name as long as the longest query
LongName == Repeat("a", MaxQueryLen)

\* the listed tools: "a", "aa", ... and, last, the long name
Catalogue ==
    [i \in 1..CatalogueSize |-> Tool(IF i = CatalogueSize THEN LongName ELSE Repeat("a", i))]

\* the config entry of the server that lists them
CatalogueEntry ==
    ConfigEntry(<<"a">>, HttpEndpoint, AuthConfig("none", None), TRUE, TRUE, FALSE)

\* the empty query, a word, the long name, one character more
LimitQueries == {<<>>, <<"a">>, LongName, Repeat("a", MaxQueryLen + 1)}

\* max_results below, at and above the ends of 1..10
LimitsAsked == {-1, 0, 1, 3, 10, 11, 12}

\* the config holds one entry; one client searches, one call at a time
NextLimits ==
    \/ \E k \in {1, CatalogueSize} :
          /\ summary.entries = <<>>
          /\ LoadEntry(CatalogueEntry, Discovered(SubSeq(Catalogue, CatalogueSize - k + 1,
                                                      CatalogueSize)))
    \/ LoadDone
    \/ \E query \in LimitQueries, max_results \in LimitsAsked, use_regex \in BOOLEAN :
          AllIdle /\ ToolSearch(1, query, max_results, use_regex)
    \/ \E h \in Handlers, storage_ok \in BOOLEAN : ToolSearchResume(h, storage_ok)

SpecLimits == InitBm25 /\ [][NextLimits]_vars

-----------------------------------------------------------------------------
(* search_regex over the same catalogue *)

\* the empty pattern, a word, a word in capitals, two words with
\* anything between, a word no tool has, a pattern that does not compile
RegexQueries ==
    {<<>>, <<"a", "d", "d">>, <<"D", "A", "D">>,
     <<"d", "a", "d", ".*", "a", "d", "d">>, <<"n", "n">>, <<"(", "a">>}

\* limit is a count: 0 or more
RegexLimits == 0..(MaxResults + 1)

\* search_regex(query, limit): the tools found, or the ValueError that
\* stands for a pattern re.compile refuses
DoSearchRegex(query, limit) ==
    /\ Budget
    /\ last' = [op |-> "search_regex", name |-> query,
                ret |-> IF InvalidPattern(query) THEN "ValueError: Invalid regex pattern"
                        ELSE "ok",
                arg |-> [limit |-> limit,
                         hits |-> IF InvalidPattern(query) THEN <<>>
                                  ELSE SearchRegex(index, query, limit)]]
    /\ UNCHANGED <<index, storage, now, active_tools, mcp, summary, handlers, sent,
                   gateway, calls, writes, whoosh_available, tasks>>

NextRegex ==
    \/ \E tool \in Bm25Tools : DoIndexTools(<<"a">>, <<tool>>)
    \/ \E query \in RegexQueries, limit \in RegexLimits : DoSearchRegex(query, limit)

SpecRegex == Init /\ [][NextRegex]_vars

-----------------------------------------------------------------------------
(* Properties of the registry *)

\* the metadata entries stored for a server, by their server_name field
MetadataOf(st, t, server_name) ==
    LET IsOf(m) == m.server_name = server_name
    IN  SelectSeq(GetAllToolMetadata(st, t), IsOf)

\* C1: after unregister(s) has returned true for a server that had tools
\* stored, get(s) and get_auth_config(s) are absent, get_tools(s) is [] and
\* no metadata entry has server_name = s.
C1_UnregisterLeavesNothing ==
    (last.op = "unregister" /\ last.ret = "true" /\ last.arg.had_tools) =>
        /\ RegistryGet(storage, last.name) = None
        /\ GetAuthConfig(storage, last.name) = None
        /\ GetTools(storage, now, last.name) = <<>>
        /\ MetadataOf(storage, now, last.name) = <<>>

\* C4: a store_tools for one registered server leaves every metadata entry
\* of every other registered server as it was.
C4_StoreToolsLeavesOtherServers ==
    [][(last'.op = "store_tools" /\ steps' = steps + 1
          /\ RegistryGet(storage, last'.name) # None) =>
        \A i \in 1..Len(GetAllToolMetadata(storage, now)) :
            LET m == GetAllToolMetadata(storage, now)[i]
            IN  (m.server_name # last'.name /\ RegistryGet(storage, m.server_name) # None)
                    => GetToolMetadata(storage', now, m.namespaced_name) = Some(m)]_vars

\* C5: splitting the namespaced name of a stored metadata entry of a
\* registered server at the first "__" gives back its server and tool name.
C5_SplitRecoversServerAndTool ==
    \A i \in 1..Len(GetAllToolMetadata(storage, now)) :
        LET m == GetAllToolMetadata(storage, now)[i]
        IN  RegistryGet(storage, m.server_name) # None =>
                /\ HasSep(m.namespaced_name)
                /\ SplitFirst(m.namespaced_name) = <<m.server_name, m.tool_name>>

\* C8: a registered server has an auth config iff it was registered with an
\* auth type other than none.
C8_AuthConfigIffTyped ==
    \A name \in ServerNames :
        RegistryGet(storage, name) # None =>
            ((GetAuthConfig(storage, name) # None)
                <=> (RegistryGet(storage, name)[1].auth_type # "none"))

\* C9: register of an existing name returns Conflict and changes nothing
\* in storage; register of a new name stores a record with the
\* registration's fields, status unknown and tool_count 0.
C9_RegisterConflictOrFresh ==
    [][(last'.op = "register" /\ steps' = steps + 1) =>
        LET reg == last'.arg
        IN  IF RegistryGet(storage, reg.name) # None
            THEN last'.ret = "Conflict" /\ storage' = storage
            ELSE /\ last'.ret = "ok"
                 /\ RegistryGet(storage', reg.name) # None
                 /\ LET rec == RegistryGet(storage', reg.name)[1]
                    IN  /\ rec.name = reg.name /\ rec.url = reg.url
                        /\ rec.transport = reg.transport /\ rec.command = reg.command
                        /\ rec.args = reg.args /\ rec.env = reg.env
                        /\ rec.connection_mode = reg.connection_mode
                        /\ rec.auth_type = reg.auth.type
                        /\ rec.status = "unknown" /\ rec.tool_count = 0]_vars

\* a register that met a record of another auth type, with tools and a
\* tool count, and returned Conflict
C9_Witness ==
    /\ last.op = "register" /\ last.ret = "Conflict"
    /\ RegistryGet(storage, last.name)[1].auth_type # last.arg.auth.type
    /\ RegistryGet(storage, last.name)[1].tool_count = 1
    /\ GetTools(storage, now, last.name) # <<>>

-----------------------------------------------------------------------------
(* Properties of the bootstrap loader *)

\* C2: a config of three enabled servers, all registered, where discovery
\* succeeds for the first and third and fails for the second, gives
\* servers_loaded = 2, servers_failed = 1, servers_skipped = 0 and
\* total_tools = N1 + N3.
C2_DiscoveryFailureCountedFailed ==
    (/\ summary.done
     /\ Len(summary.entries) = 3
     /\ \A i \in 1..3 : summary.entries[i].enabled /\ summary.entries[i].registered
     /\ summary.entries[1].discovery = "ok"
     /\ summary.entries[2].discovery = "failed"
     /\ summary.entries[3].discovery = "ok") =>
        /\ summary.servers_loaded = 2
        /\ summary.servers_failed = 1
        /\ summary.servers_skipped = 0
        /\ summary.total_tools = summary.entries[1].n + summary.entries[3].n

\* C10: right after the loader's discovery write for a server, the
\* server's tool_count is the number of metadata entries of that server.
C10_ToolCountMatchesMetadata ==
    (last.op = "load_entry" /\ last.arg.wrote) =>
        RegistryGet(storage, last.name)[1].tool_count
            = Len(MetadataOf(storage, now, last.name))

-----------------------------------------------------------------------------
(* Properties of the gateway's tools *)

\* C3: in static mode a call_remote_tool that reaches the downstream server
\* sends what the same call without auth_header would send, and over http
\* its headers are the server's registered ones.
C3_StaticModeIgnoresClientHeader ==
    [][(/\ last'.op = "call_remote_tool" /\ steps' = steps + 1
        /\ gateway.auth_mode = "static"
        /\ last'.arg.request # None) =>
        LET auth_config == GetAuthConfig(storage, SplitFirst(last'.name)[1])
            registered == IF auth_config # None /\ auth_config[1].headers # None
                          THEN auth_config[1].headers[1] ELSE EmptyDict
        IN  /\ last'.arg.request = CallRemoteTool(storage, gateway, last'.name, None).request
            /\ (last'.arg.request[1].transport = "http"
                    => last'.arg.request[1].headers = registered)]_vars

\* how many times the framework was asked to register a name
Registrations_Of(namespaced_name) ==
    Cardinality({i \in 1..Len(mcp) : mcp[i] = namespaced_name})

\* C6: when two tool_search calls made one after the other have both
\* returned a tool whose metadata is stored, the framework has registered
\* that tool exactly once.
C6_SequentialActivationOnce ==
    AllIdle =>
        \A i \in 1..Len(handlers[1].refs) :
            LET ns == handlers[1].refs[i]
            IN  (/\ \E j \in 1..Len(handlers[2].refs) : handlers[2].refs[j] = ns
                 /\ GetToolMetadata(storage, now, ns) # None)
                    => Registrations_Of(ns) = 1

\* C7: with tool_search handlers in flight at once, a handler registers a
\* tool with the framework only while the tool is not in active_tools, so
\* no tool is activated twice.
C7_ActivationExclusive ==
    [][last'.op = "tool_search" =>
        \A i \in 1..Len(mcp') :
            i > Len(mcp) => mcp'[i] \notin active_tools]_vars

\* C11: when tool_search has returned success, every tool it names is in
\* active_tools.
C11_ReturnedToolsAreActive ==
    (last.op = "tool_search" /\ last.ret = "success") =>
        \A i \in 1..Len(last.arg.refs) : last.arg.refs[i] \in active_tools

\* C12: tool_search answers invalid_pattern exactly when the query does
\* not compile as a regex.
C12_InvalidPatternIffBadRegex ==
    last.op = "tool_search" =>
        ((last.ret = "invalid_pattern") <=> InvalidPattern(last.name))

-----------------------------------------------------------------------------
(* Properties of the router's and discovery's sessions *)

\* C13: whenever a caller has no call in flight (it returned, failed,
\* timed out or was cancelled), nothing it opened is still open: no HTTP
\* client, stream, subprocess or session.
C13_IdleHoldsNothing ==
    \A c \in Callers : calls[c].pc = "idle" => calls[c].held = <<>>

\* a cancelled call and a timed-out one, both over after opening something
C13_Witness ==
    /\ \A c \in Callers : calls[c].pc = "idle" /\ calls[c].acquired > 0
    /\ \E c \in Callers : calls[c].ret = "CancelledError"
    /\ \E c \in Callers : calls[c].ret \in {"TimeoutError", "ConnectionError"}

C15_DiscoveryFollowsRouterTransports ==
    \A c \in Callers :
        (calls[c].kind = "discover" /\ calls[c].pc = "idle") =>
            IF CallPlan(calls[c].transport) # <<>>
            THEN calls[c].ret = "ok" => calls[c].acquired = Len(CallPlan(calls[c].transport))
            ELSE calls[c].ret # "ok"

\* C19: call_tool over http with a URL that has no http:// or https://
\* scheme fails with the invalid-URL error, and over a transport outside
\* http, stdio and sse with the unsupported-transport error; either way
\* the call is over at once and has opened nothing.
C19_RefusedCallsOpenNothing ==
    [][\A c \in Callers, transport \in RouterTransports, url \in Urls :
          RouterStart(c, transport, url) =>
              /\ (transport = "http"
                    /\ ~(StartsWith(url, <<"http://">>) \/ StartsWith(url, <<"https://">>)))
                 => /\ calls'[c].ret = "ToolCallError: Invalid HTTP URL"
                    /\ calls'[c].pc = "idle"
                    /\ calls'[c].acquired = 0 /\ calls'[c].held = <<>>
              /\ transport \notin {"http", "stdio", "sse"}
                 => /\ calls'[c].ret = "ToolCallError: Unsupported transport"
                    /\ calls'[c].pc = "idle"
                    /\ calls'[c].acquired = 0 /\ calls'[c].held = <<>>]_vars

\* one caller refused for its URL, the other for its transport
C19_Witness ==
    /\ \E c \in Callers : calls[c].kind = "call" /\ calls[c].transport = "http"
                          /\ calls[c].ret = "ToolCallError: Invalid HTTP URL"
    /\ \E c \in Callers : calls[c].kind = "call" /\ calls[c].transport = "ws"
                          /\ calls[c].ret = "ToolCallError: Unsupported transport"

-----------------------------------------------------------------------------
(* Properties of call_remote_tool's arguments and of the auth policy *)

\* C17: when call_remote_tool reaches the router, the headers it hands
\* over are {Authorization: auth_header} if the caller gave a (non-empty)
\* auth_header, else the headers of the AuthConfig stored for the server
\* if one with (non-empty) headers is stored, else none.
C17_HandedHeaders ==
    [][(last'.op = "call_remote_tool" /\ last'.arg.handed # None) =>
          LET auth_header == last'.arg.auth_header
              stored == GetAuthConfig(storage, SplitFirst(last'.name)[1])
          IN  last'.arg.handed[1] =
                  IF auth_header \notin {None, Some("")}
                  THEN Some(Headers(auth_header[1]))
                  ELSE IF stored # None /\ stored[1].headers \notin {None, Some(EmptyDict)}
                  THEN stored[1].headers
                  ELSE None]_vars

\* a call without auth_header to a server registered with static headers
\* has handed those to the router
C17_Witness ==
    /\ last.op = "call_remote_tool"
    /\ last.arg.auth_header = None
    /\ last.arg.handed = Some(Some(Headers("Bearer S")))

\* C18: a tool_name without "__" fails as an invalid tool name and one
\* whose part before the first "__" is no registered server fails as an
\* unknown server; either way nothing is sent downstream, no session is
\* opened and the registry's storage is as it was.
C18_BadNamesTouchNothing ==
    [][last'.op = "call_remote_tool" =>
          LET tool_name == last'.name
              Untouched == sent' = sent /\ calls' = calls /\ storage' = storage
          IN  /\ ~HasSep(tool_name) =>
                    (last'.ret = "ValueError: Invalid tool name format" /\ Untouched)
              /\ (HasSep(tool_name) /\ RegistryGet(storage, SplitFirst(tool_name)[1]) = None) =>
                    (last'.ret = "ValueError: Server not found" /\ Untouched)]_vars

\* with a server registered, a call naming another one was refused
C18_Witness ==
    /\ last.op = "call_remote_tool"
    /\ last.ret = "ValueError: Server not found"
    /\ RegistryGet(storage, <<"a", "_">>) # None
    /\ sent = <<>>

\* C16: for every auth mode, gateway transport, server headers and client
\* header, _get_effective_auth_headers returns: in static mode the server
\* headers or none; in forward mode {Authorization: client header} when a
\* client header is present, else the server headers, else none; in auto
\* mode the forward result iff the gateway transport is http or
\* streamable-http, else the static result. A header or dict that is
\* empty counts as absent.
C16_EffectiveAuthTable ==
    last.op = "_get_effective_auth_headers" =>
        LET server == last.arg.server_auth_headers
            client == last.arg.client_auth_header
            static == IF server \in {None, Some(EmptyDict)} THEN None ELSE server
            forward == IF client \in {None, Some("")} THEN static
                       ELSE Some(Headers(client[1]))
        IN  last.ret =
                CASE gateway.auth_mode = "static" -> static
                  [] gateway.auth_mode = "forward" -> forward
                  [] gateway.auth_mode = "auto" ->
                        IF gateway.transport \in {"http", "streamable-http"}
                        THEN forward ELSE static

\* auto mode over sse with both headers present: the server's are used
C16_Witness ==
    /\ last.op = "_get_effective_auth_headers"
    /\ gateway = [auth_mode |-> "auto", transport |-> "sse"]
    /\ last.arg.server_auth_headers = Some(Headers("Bearer S"))
    /\ last.arg.client_auth_header = Some("Bearer C")
    /\ last.ret = Some(Headers("Bearer S"))

-----------------------------------------------------------------------------
(* Properties of the search index *)

\* C20: after store_tools and index_tools with the same tools, a regex
\* query gets the same result list from the live index as from a fresh
\* index built by index_all_metadata over get_all_tool_metadata().
C20_RebuiltIndexAnswersAlike ==
    last.op = "search_regex" => last.ret = last.arg.rebuilt

-----------------------------------------------------------------------------
(* Properties of the tool bundle and of the storage backend *)

C22_ExpiredKeysAbsent ==
    \A key \in PlainKeys :
        DictHas(writes, key) =>
            LET w == DictGet(writes, key)[1]
            IN  IF w.ttl = None
                THEN StorageGet(storage, now, key) # None /\ StorageExists(storage, now, key)
                ELSE now > w.at + w.ttl[1] =>
                        /\ StorageGet(storage, now, key) = None
                        /\ ~StorageExists(storage, now, key)
                        /\ \A i \in 1..Len(StorageKeys(storage, now, <<"*">>)) :
                              StorageKeys(storage, now, <<"*">>)[i] # key

\* C23: delete(k) answers true exactly when get(k) would have found the
\* key just before, hdel(k, f) exactly when hget(k, f) would have; after
\* either, the key or field reads as absent.
C23_DeleteReportsPresence ==
    [][/\ (steps' # steps /\ last'.op = "delete") =>
            /\ last'.ret = (StorageGet(storage, now, last'.name) # None)
            /\ StorageGet(storage', now', last'.name) = None
       /\ (steps' # steps /\ last'.op = "hdel") =>
            /\ last'.ret = (StorageHGet(storage, last'.name, last'.arg.field) # None)
            /\ StorageHGet(storage', last'.name, last'.arg.field) = None]_vars

\* C24: remove_server_tools(s) leaves no index entry whose server is s
\* and keeps every entry of every other server as it was.
C24_RemoveOnlyThatServer ==
    [][last'.op = "remove_server_tools" =>
          \A i \in 1..Len(index) :
              IF index[i].v.server_name = last'.name
              THEN ~DictHas(index', index[i].k)
              ELSE DictGet(index', index[i].k) = Some(index[i].v)]_vars

\* C25 as stated: search_bm25 returns at most limit tools, each scoring
\* above 0, best score first and equal scores in index order, and the
\* same list again for the same index and query.
C25_RankedByScore ==
    /\ [](last.op = "search_bm25" =>
            LET hits == last.ret
                Score(i) == Bm25Score(last.name, hits[i].v)
                Pos(i) == DictIndex(index, hits[i].k)
            IN  /\ Len(hits) <= last.arg.limit
                /\ \A i \in 1..Len(hits) : Score(i) > 0
                /\ \A i, j \in 1..Len(hits) :
                      i < j => \/ Score(i) > Score(j)
                               \/ (Score(i) = Score(j) /\ Pos(i) < Pos(j)))
    /\ [][(/\ last.op = "search_bm25" /\ last'.op = "search_bm25"
           /\ last'.name = last.name /\ last'.arg = last.arg /\ index' = index)
          => last'.ret = last.ret]_vars

\* C25 as the code has it: with the library the result is ranked as
\* stated; without it the result is that of the regex search for the
\* keywords joined by ".*", so at most limit tools, each scoring above 0,
\* in index order; either way the same list again for the same index and
\* query.
C25_RankedWhenLibraryPresent ==
    /\ [](last.op = "search_bm25" =>
            LET hits == last.ret
                Score(i) == Bm25Score(last.name, hits[i].v)
                Pos(i) == DictIndex(index, hits[i].k)
            IN  /\ Len(hits) <= last.arg.limit
                /\ \A i \in 1..Len(hits) : Score(i) > 0
                /\ \A i, j \in 1..Len(hits) :
                      i < j => IF whoosh_available
                               THEN \/ Score(i) > Score(j)
                                    \/ (Score(i) = Score(j) /\ Pos(i) < Pos(j))
                               ELSE Pos(i) < Pos(j))
    /\ [][(/\ last.op = "search_bm25" /\ last'.op = "search_bm25"
           /\ last'.name = last.name /\ last'.arg = last.arg /\ index' = index)
          => last'.ret = last.ret]_vars

\* with the library, two tools came back with the later-indexed one first
C25_Witness ==
    /\ last.op = "search_bm25"
    /\ whoosh_available
    /\ Len(last.ret) = 2
    /\ DictIndex(index, last.ret[1].k) > DictIndex(index, last.ret[2].k)

\* C26: for a pattern that compiles, search_regex returns the first
\* min(limit, m) of the m indexed tools whose searchable_text the pattern
\* is found in, letter case aside, in index order; for one that does not
\* compile it raises the invalid-pattern error; the index is as it was.
C26_RegexFirstMatches ==
    [][last'.op = "search_regex" =>
          LET query == last'.name
              hits == last'.arg.hits
              M == {p \in 1..Len(index) :
                        RegexFound(index[p].v.searchable_text, query)}
          IN  /\ index' = index
              /\ IF InvalidPattern(query)
                 THEN last'.ret = "ValueError: Invalid regex pattern"
                 ELSE /\ last'.ret = "ok"
                      /\ Len(hits) = IF last'.arg.limit < Cardinality(M)
                                     THEN last'.arg.limit ELSE Cardinality(M)
                      /\ \A i \in 1..Len(hits) :
                            \E p \in M : /\ hits[i] = index[p]
                                         /\ Cardinality({q \in M : q < p}) = i - 1]_vars

\* a pattern in capitals found two of three indexed tools, the limit
\* let one through
C26_Witness ==
    /\ last.op = "search_regex"
    /\ last.name = <<"D", "A", "D">>
    /\ last.arg.limit = 1
    /\ Len(last.arg.hits) = 1
    /\ Len(index) = 3
    /\ Cardinality({p \in 1..Len(index) :
                       RegexFound(index[p].v.searchable_text, last.name)}) = 2
    /\ ~RegexFound(index[1].v.searchable_text, last.name)

\* C27: whatever integer max_results is, a tool_search that succeeds
\* returns at most min(10, max(1, max_results)) references, and its
\* total_matches is the number of references returned.
C27_ClampedResults ==
    [][(last'.op = "tool_search" /\ last'.ret = "success" /\ last' # last) =>
          LET asked == last'.arg.max_results
              most == IF asked < 1 THEN 1 ELSE IF asked > 10 THEN 10 ELSE asked
          IN  /\ Len(last'.arg.refs) <= most
              /\ last'.arg.total_matches = Len(last'.arg.refs)]_vars

\* 12 results were asked for, 11 tools match, 10 came back
C27_Witness ==
    /\ last.op = "tool_search"
    /\ last.ret = "success"
    /\ last.arg.max_results = 12
    /\ Len(index) = CatalogueSize
    /\ Len(last.arg.refs) = 10
    /\ last.arg.total_matches = 10

\* C28: a query of more than 200 characters is answered query_too_long, no
\* search result is produced, no handler is left waiting, active_tools and
\* the framework's tools are as they were; a query of exactly 200
\* characters gets the result of the search: here, the tool of that name
\* when it is indexed.
C28_LongQueriesRefused ==
    [][(last'.op = "tool_search" /\ steps' # steps) =>
          LET h == last'.arg.h
          IN  /\ Len(last'.name) > 200 =>
                    /\ last'.ret = "query_too_long"
                    /\ last'.arg.refs = <<>>
                    /\ handlers'[h].pc = "idle"
                    /\ active_tools' = active_tools
                    /\ mcp' = mcp
              /\ Len(last'.name) = 200 =>
                    /\ last'.ret \in {"success", "pending"}
                    /\ LET Named(e) == e.v.tool_name = last'.name
                           found == SelectSeq(index, Named)
                       IN  last'.arg.refs =
                               [i \in 1..Len(found) |-> found[i].v.namespaced_name]]_vars

\* the 200-character query found the tool of that name and activated it;
\* the query one character longer was then refused
C28_Witness ==
    /\ last.op = "tool_search"
    /\ last.ret = "query_too_long"
    /\ Len(last.name) = 201
    /\ \E n \in active_tools : Len(n) > 200

\* what a step leaves of the storage when it may write name's record:
\* the plain keys and their expiries, every hash but the servers hash, the
\* names in the servers hash and their order, every other server's record
OnlyRecordOf(name) ==
    /\ storage'.data = storage.data
    /\ storage'.expires = storage.expires
    /\ Len(storage'.hashes) = Len(storage.hashes)
    /\ \A i \in 1..Len(storage.hashes) :
          /\ storage'.hashes[i].k = storage.hashes[i].k
          /\ storage.hashes[i].k # ServersKey => storage'.hashes[i].v = storage.hashes[i].v
    /\ LET before == StorageHGetAll(storage, ServersKey)
           after == StorageHGetAll(storage', ServersKey)
       IN  /\ Len(after) = Len(before)
           /\ \A i \in 1..Len(before) :
                 /\ after[i].k = before[i].k
                 /\ before[i].k # name => after[i].v = before[i].v

\* the fields of name's record a step may have changed
OnlyFields(name, fields) ==
    LET before == RegistryGet(storage, name)[1]
        after == RegistryGet(storage', name)[1]
    IN  /\ DOMAIN after = DOMAIN before
        /\ \A f \in DOMAIN before \ fields : after[f] = before[f]

\* C29: an update_status that returns true changes at most status,
\* last_health_check and error_message of the named server's record, an
\* update_tool_count that returns true at most tool_count; the record's
\* other fields, the other servers' records and every auth, bundle and
\* metadata key are as they were.
C29_UpdatesTouchOnlyTheirFields ==
    [][(steps' # steps /\ last'.ret = "true") =>
          /\ last'.op = "update_status" =>
                /\ OnlyRecordOf(last'.name)
                /\ OnlyFields(last'.name, {"status", "last_health_check", "error_message"})
          /\ last'.op = "update_tool_count" =>
                /\ OnlyRecordOf(last'.name)
                /\ OnlyFields(last'.name, {"tool_count"})]_vars

\* update_status succeeded on a server that has a tool count, a
\* registration time in the past, an auth key, a tools bundle and tool
\* metadata
C29_Witness ==
    /\ last.op = "update_status"
    /\ last.ret = "true"
    /\ LET server == RegistryGet(storage, last.name)
       IN  /\ server # None
           /\ server[1].status = "error"
           /\ server[1].error_message = Some("boom")
           /\ server[1].last_health_check # None
           /\ server[1].last_health_check # Some(server[1].registered_at)
    /\ GetAuthConfig(storage, last.name) # None
    /\ GetTools(storage, now, last.name) # <<>>

\* C30: unregister, update_status and update_tool_count called with a
\* name that has no record return false and leave the storage as it was.
C30_UnknownNamesChangeNothing ==
    [][(/\ steps' # steps
        /\ last'.op \in {"unregister", "update_status", "update_tool_count"}
        /\ RegistryGet(storage, last'.name) = None)
          => (last'.ret = "false" /\ storage' = storage)]_vars

\* unregister was refused for a name that has no record but has a tools
\* bundle, which is still there
C30_Witness ==
    /\ last.op = "unregister"
    /\ last.ret = "false"
    /\ RegistryGet(storage, last.name) = None
    /\ GetTools(storage, now, last.name) # <<>>

\* C31: over the backend that serializes to JSON, a register of a name
\* that has no record writes the ServerRecord, and get reads back a record
\* equal to the one written.
C31_RecordsSurviveJson ==
    [][(steps' # steps /\ last'.op = "register" /\ RedisGet(storage, last'.name) = None)
          => (last'.ret = "ok" /\ last'.arg.read = Some(last'.arg.written))]_vars

\* C32: at every point of load_and_register the three server counters add
\* up to the number of entries passed, and total_tools is the sum of
\* tool_count over the servers list; an entry that is not enabled adds one
\* to servers_skipped and nothing else: no storage write, no index entry,
\* no tool created.
C32_SummaryAddsUp ==
    /\ [](/\ summary.servers_loaded + summary.servers_failed + summary.servers_skipped
               = Len(summary.entries)
          /\ summary.total_tools
               = Sum([i \in 1..Len(summary.servers) |-> summary.servers[i].tool_count]))
    /\ [][(/\ Len(summary'.entries) = Len(summary.entries) + 1
           /\ ~summary'.entries[Len(summary'.entries)].enabled)
             => /\ summary'.servers_skipped = summary.servers_skipped + 1
                /\ summary'.servers = summary.servers
                /\ storage' = storage
                /\ index' = index
                /\ mcp' = mcp
                /\ active_tools' = active_tools]_vars

\* a config of three entries has been loaded: one skipped, one failed, one
\* loaded with two tools
C32_Witness ==
    /\ summary.done
    /\ Len(summary.entries) = 3
    /\ summary.servers_skipped = 1
    /\ summary.servers_failed = 1
    /\ summary.servers_loaded = 1
    /\ summary.total_tools = 2

\* C33: every tool registered with the outer framework, at bootstrap or by
\* a search, is in active_tools, and no namespaced name is registered with
\* the framework more than once.
C33_ExposedToolsAreActive ==
    \A i \in 1..Len(mcp) :
        /\ mcp[i] \in active_tools
        /\ Registrations_Of(mcp[i]) = 1

\* the ToolMetadata entries in st whose server_name is name
MetadataOfServer(st, name) ==
    {st.data[i].v : i \in {j \in 1..Len(st.data) :
                              /\ st.data[j].k[1] = "gateway:tool_meta:"
                              /\ st.data[j].v.server_name = name}}

\* C37: every tool bundle and every gateway:tool_meta entry belongs to a
\* server that has a ServerRecord.
C37_NoOrphanedToolKeys ==
    /\ \A name \in ServerNames :
          DictHas(storage.data, ToolsKey(name)) => RegistryGet(storage, name) # None
    /\ \A i \in 1..Len(storage.data) :
          storage.data[i].k[1] = "gateway:tool_meta:"
              => RegistryGet(storage, storage.data[i].v.server_name) # None

\* C38: right after store_tools(s, T) the ToolMetadata entries whose
\* server_name is s are those of the named tools of T and no others.
C38_MetadataIsThatOfLastBundle ==
    [][last'.op = "store_tools" =>
          MetadataOfServer(storage', last'.name)
              = {ToolMetadata(last'.name, last'.arg[i].name, last'.arg[i]) :
                    i \in {j \in 1..Len(last'.arg) : last'.arg[j].name # <<>>}}]_vars

\* C39: an unregister(s) that returns true leaves the ServerRecord, the
\* AuthConfig, the tool bundle and the ToolMetadata entries of every other
\* registered server as they were.
C39_UnregisterLeavesOtherServers ==
    [][(last'.op = "unregister" /\ last'.ret = "true") =>
          \A other \in ServerNames \ {last'.name} :
              RegistryGet(storage, other) # None =>
                  /\ RegistryGet(storage', other) = RegistryGet(storage, other)
                  /\ GetAuthConfig(storage', other) = GetAuthConfig(storage, other)
                  /\ GetTools(storage', now, other) = GetTools(storage, now, other)
                  /\ MetadataOfServer(storage', other) = MetadataOfServer(storage, other)]_vars

\* C40: a ServerRecord whose status is active has no error_message.
C40_ActiveHasNoErrorMessage ==
    \A name \in ServerNames :
        LET server == RegistryGet(storage, name)
        IN  (server # None /\ server[1].status = "active") => server[1].error_message = None

\* C34: once an unregister(s) has returned true, and no register(s) has
\* been called beside it, get(s) is absent, whatever update_status or
\* update_tool_count call was in flight with it.
C34_UnregisteredStaysAbsent ==
    \A t \in Tasks :
        (/\ tasks[t].pc = "done"
         /\ tasks[t].op = "unregister"
         /\ tasks[t].ret = "true"
         /\ \A u \in Tasks \ {t} : tasks[u].op # "register")
            => RegistryGet(storage, tasks[t].name) = None

\* C35: when an update_status and an update_tool_count on the same server
\* have both returned true, the stored record has the status of the one
\* and the tool_count of the other.
C35_BothUpdatesTakeEffect ==
    \A t \in Tasks, u \in Tasks :
        (/\ tasks[t].pc = "done" /\ tasks[t].op = "update_status" /\ tasks[t].ret = "true"
         /\ tasks[u].pc = "done" /\ tasks[u].op = "update_tool_count" /\ tasks[u].ret = "true"
         /\ tasks[u].name = tasks[t].name)
            => LET server == RegistryGet(storage, tasks[t].name)
               IN  /\ server # None
                   /\ server[1].status = tasks[t].arg.status
                   /\ server[1].tool_count = tasks[u].arg

\* C36: when two register calls for the same name have both returned, at
\* most one of them succeeded, and if one did the stored ServerRecord and
\* AuthConfig are those of its registration.
C36_OneRegistrationWins ==
    \A t \in Tasks, u \in Tasks :
        (/\ u # t
         /\ tasks[t].pc = "done" /\ tasks[t].op = "register"
         /\ tasks[u].pc = "done" /\ tasks[u].op = "register"
         /\ tasks[u].name = tasks[t].name
         /\ tasks[t].ret = "ok")
            => /\ tasks[u].ret = "Conflict"
               /\ RegistryGet(storage, tasks[t].name) # None
               /\ RegistryGet(storage, tasks[t].name)[1].auth_type = tasks[t].arg.auth.type
               /\ GetAuthConfig(storage, tasks[t].name)
                    = IF tasks[t].arg.auth.type = "none" THEN None
                      ELSE Some(tasks[t].arg.auth)

=============================================================================
